---- MODULE Spec2Model ----
(***************************************************************************)
(* A model of the postMessage transport demo:                              *)
(*   - the protocol version negotiator (src/src/protocol/logic.ts),        *)
(*   - the frame transport state machine and handshake the demo pages      *)
(*     drive (described in spec.md sections 3-5 and 7),                    *)
(*   - the inner page's CopilotApp calls on that transport                 *)
(*     (src/unnamed/part_001),                                             *)
(*   - the outer page's initializeCopilot, its store and its tools         *)
(*     (src/src/demo/inverted/patient-dashboard.ts).                       *)
(***************************************************************************)
EXTENDS Integers, Sequences, FiniteSets, TLC

\* ------------------------------------------------------------------------
\* Bounds of the model
\* ------------------------------------------------------------------------

\* Largest numeric component of the generated well-formed version strings.
MaxComp == 2

\* ------------------------------------------------------------------------
\* Version strings: a string is a sequence of one-character strings.
\* ------------------------------------------------------------------------

Digits == <<"0", "1", "2", "3", "4", "5", "6", "7", "8", "9">>

IsDigit(c) == \E i \in 1..10 : Digits[i] = c

DigitVal(c) == (CHOOSE i \in 1..10 : Digits[i] = c) - 1

\* The value returned for "no compatible version" (null in the source).
Null == <<"null">>

\* An argument that is no string at run time (undefined: the types are
\* erased), on which v.split throws a TypeError.
Undefined == <<"undefined">>

IsString(v) == v # Undefined

\* The outcome of a call that throws to its caller.
Thrown == <<"thrown">>

\* JavaScript NaN, as parseInt returns it; a number n is [nan |-> FALSE, n |-> n].
NaN == [nan |-> TRUE, n |-> 0]

Num(n) == [nan |-> FALSE, n |-> n]

\* String.prototype.split("."): the pieces between the dots; a string
\* without a dot (the empty string included) gives one piece.
RECURSIVE SplitFrom(_, _, _)
SplitFrom(s, i, cur) ==
  IF i > Len(s) THEN <<cur>>
  ELSE IF s[i] = "." THEN <<cur>> \o SplitFrom(s, i + 1, <<>>)
  ELSE SplitFrom(s, i + 1, Append(cur, s[i]))

Split(s) == SplitFrom(s, 1, <<>>)

\* The digits of part from position i on, read as a decimal number, stopping
\* at the first character that is not a digit.
RECURSIVE DigitsFrom(_, _, _)
DigitsFrom(part, i, acc) ==
  IF i > Len(part) \/ ~IsDigit(part[i]) THEN acc
  ELSE DigitsFrom(part, i + 1, acc * 10 + DigitVal(part[i]))

\* parseInt(part, 10): an optional sign, then the longest prefix of digits;
\* NaN when there is no digit there.
ParseInt(part) ==
  LET neg == Len(part) >= 1 /\ part[1] = "-"
      start == IF Len(part) >= 1 /\ (part[1] = "-" \/ part[1] = "+") THEN 2 ELSE 1
  IN  IF start > Len(part) \/ ~IsDigit(part[start]) THEN NaN
      ELSE IF neg THEN Num(0 - DigitsFrom(part, start, 0))
      ELSE Num(DigitsFrom(part, start, 0))

\* x || 0 on a number: NaN and 0 are falsy.
OrZero(x) == IF x.nan THEN 0 ELSE x.n

\* parseVersion: v.split(".").map(part => parseInt(part, 10) || 0)
parseVersion(v) ==
  LET parts == Split(v)
  IN  [i \in 1..Len(parts) |-> OrZero(ParseInt(parts[i]))]

\* v[i] with a missing component below every number.
PartAtShort(v, i) == IF i <= Len(v) THEN v[i] ELSE -1

\* v[i] || 0 on an array: an index past the end reads undefined.
PartAt(v, i) == IF i <= Len(v) THEN v[i] ELSE 0

Max2(a, b) == IF a >= b THEN a ELSE b

\* compareVersions: the loop over i = 0 .. maxLength-1 returning at the
\* first differing component.
RECURSIVE CompareFrom(_, _, _)
CompareFrom(v1, v2, i) ==
  IF i > Max2(Len(v1), Len(v2)) THEN 0
  ELSE IF PartAt(v1, i) < PartAt(v2, i) THEN -1
  ELSE IF PartAt(v1, i) > PartAt(v2, i) THEN 1
  ELSE CompareFrom(v1, v2, i + 1)

\* compareVersions without the test part1 > part2.
compareVersionsNoGreater(v1, v2) == IF CompareFrom(v1, v2, 1) < 0 THEN -1 ELSE 0

compareVersions(v1, v2) == CompareFrom(v1, v2, 1)

\* Number.prototype.toString for an integer.
RECURSIVE NatToStr(_)
NatToStr(n) ==
  IF n < 10 THEN <<Digits[n + 1]>>
  ELSE Append(NatToStr(n \div 10), Digits[(n % 10) + 1])

NumToStr(n) == IF n < 0 THEN <<"-">> \o NatToStr(0 - n) ELSE NatToStr(n)

\* versionToString: parts.join(".")
RECURSIVE JoinFrom(_, _)
JoinFrom(parts, i) ==
  IF i > Len(parts) THEN <<>>
  ELSE IF i = Len(parts) THEN NumToStr(parts[i])
  ELSE NumToStr(parts[i]) \o <<".">> \o JoinFrom(parts, i + 1)

versionToString(parts) == JoinFrom(parts, 1)

\* isVersionInRange with the upper bound excluded.
isVersionInRangeExclusive(version, minVersion, maxVersion) ==
  LET versionParts == parseVersion(version)
      minVersionParts == parseVersion(minVersion)
      maxVersionParts == parseVersion(maxVersion)
      isAboveMin == compareVersions(versionParts, minVersionParts) >= 0
      isBelowMax == compareVersions(versionParts, maxVersionParts) < 0
  IN  isAboveMin /\ isBelowMax

\* The try block of isVersionInRange (lines 36-44): parseVersion throws on
\* an argument that is no string.
TryInRange(version, minVersion, maxVersion) ==
  IF ~IsString(version) \/ ~IsString(minVersion) \/ ~IsString(maxVersion)
  THEN Thrown
  ELSE LET versionParts == parseVersion(version)
           minVersionParts == parseVersion(minVersion)
           maxVersionParts == parseVersion(maxVersion)
           isAboveMin == compareVersions(versionParts, minVersionParts) >= 0
           isBelowMax == compareVersions(versionParts, maxVersionParts) <= 0
       IN  IF isAboveMin /\ isBelowMax THEN <<"true">> ELSE <<"false">>

\* The catch of lines 45-48 returns false.
isVersionInRange(version, minVersion, maxVersion) ==
  LET r == TryInRange(version, minVersion, maxVersion)
  IN  IF r = Thrown THEN FALSE ELSE r = <<"true">>

\* negotiateVersion returning the narrowest version of the overlap.
negotiateVersionNarrowest(clientMinVersion, clientMaxVersion, serverMinVersion, serverMaxVersion) ==
  LET clientMin == parseVersion(clientMinVersion)
      clientMax == parseVersion(clientMaxVersion)
      serverMin == parseVersion(serverMinVersion)
      serverMax == parseVersion(serverMaxVersion)
      overlapMin == IF compareVersions(clientMin, serverMin) >= 0 THEN clientMin ELSE serverMin
      overlapMax == IF compareVersions(clientMax, serverMax) <= 0 THEN clientMax ELSE serverMax
  IN  IF compareVersions(overlapMin, overlapMax) <= 0
      THEN versionToString(overlapMin)
      ELSE Null

\* negotiateVersion taking a one-version overlap for none.
negotiateVersionStrict(clientMinVersion, clientMaxVersion, serverMinVersion, serverMaxVersion) ==
  LET clientMin == parseVersion(clientMinVersion)
      clientMax == parseVersion(clientMaxVersion)
      serverMin == parseVersion(serverMinVersion)
      serverMax == parseVersion(serverMaxVersion)
      overlapMin == IF compareVersions(clientMin, serverMin) >= 0 THEN clientMin ELSE serverMin
      overlapMax == IF compareVersions(clientMax, serverMax) <= 0 THEN clientMax ELSE serverMax
  IN  IF compareVersions(overlapMin, overlapMax) < 0
      THEN versionToString(overlapMax)
      ELSE Null

\* negotiateVersion without the test for an overlap.
negotiateVersionUnchecked(clientMinVersion, clientMaxVersion, serverMinVersion, serverMaxVersion) ==
  LET clientMax == parseVersion(clientMaxVersion)
      serverMax == parseVersion(serverMaxVersion)
      overlapMax == IF compareVersions(clientMax, serverMax) <= 0 THEN clientMax ELSE serverMax
  IN  versionToString(overlapMax)

\* negotiateVersion returning the larger of the two max versions.
negotiateVersionWidest(clientMinVersion, clientMaxVersion, serverMinVersion, serverMaxVersion) ==
  IF ~IsString(clientMinVersion) \/ ~IsString(clientMaxVersion)
     \/ ~IsString(serverMinVersion) \/ ~IsString(serverMaxVersion)
  THEN Null
  ELSE LET clientMin == parseVersion(clientMinVersion)
           clientMax == parseVersion(clientMaxVersion)
           serverMin == parseVersion(serverMinVersion)
           serverMax == parseVersion(serverMaxVersion)
           overlapMin == IF compareVersions(clientMin, serverMin) >= 0 THEN clientMin ELSE serverMin
           overlapMax == IF compareVersions(clientMax, serverMax) <= 0 THEN clientMax ELSE serverMax
           widest == IF compareVersions(clientMax, serverMax) <= 0 THEN serverMax ELSE clientMax
       IN  IF compareVersions(overlapMin, overlapMax) <= 0
           THEN versionToString(widest)
           ELSE Null

\* negotiateVersion returning the caller's own max version.
negotiateVersionClientMax(clientMinVersion, clientMaxVersion, serverMinVersion, serverMaxVersion) ==
  IF ~IsString(clientMinVersion) \/ ~IsString(clientMaxVersion)
     \/ ~IsString(serverMinVersion) \/ ~IsString(serverMaxVersion)
  THEN Null
  ELSE LET clientMin == parseVersion(clientMinVersion)
           clientMax == parseVersion(clientMaxVersion)
           serverMin == parseVersion(serverMinVersion)
           serverMax == parseVersion(serverMaxVersion)
           overlapMin == IF compareVersions(clientMin, serverMin) >= 0 THEN clientMin ELSE serverMin
           overlapMax == IF compareVersions(clientMax, serverMax) <= 0 THEN clientMax ELSE serverMax
       IN  IF compareVersions(overlapMin, overlapMax) <= 0
           THEN versionToString(clientMax)
           ELSE Null

\* negotiateVersion taking the smaller of the two min versions for the
\* lower end of the overlap.
negotiateVersionLoosest(clientMinVersion, clientMaxVersion, serverMinVersion, serverMaxVersion) ==
  IF ~IsString(clientMinVersion) \/ ~IsString(clientMaxVersion)
     \/ ~IsString(serverMinVersion) \/ ~IsString(serverMaxVersion)
  THEN Null
  ELSE LET clientMin == parseVersion(clientMinVersion)
           clientMax == parseVersion(clientMaxVersion)
           serverMin == parseVersion(serverMinVersion)
           serverMax == parseVersion(serverMaxVersion)
           overlapMin == IF compareVersions(clientMin, serverMin) <= 0 THEN clientMin ELSE serverMin
           overlapMax == IF compareVersions(clientMax, serverMax) <= 0 THEN clientMax ELSE serverMax
       IN  IF compareVersions(overlapMin, overlapMax) <= 0
           THEN versionToString(overlapMax)
           ELSE Null

\* The try block of negotiateVersion (lines 87-105): parseVersion throws on
\* an argument that is no string.
TryNegotiate(clientMinVersion, clientMaxVersion, serverMinVersion, serverMaxVersion) ==
  IF ~IsString(clientMinVersion) \/ ~IsString(clientMaxVersion)
     \/ ~IsString(serverMinVersion) \/ ~IsString(serverMaxVersion)
  THEN Thrown
  ELSE LET clientMin == parseVersion(clientMinVersion)
           clientMax == parseVersion(clientMaxVersion)
           serverMin == parseVersion(serverMinVersion)
           serverMax == parseVersion(serverMaxVersion)
           overlapMin == IF compareVersions(clientMin, serverMin) >= 0 THEN clientMin ELSE serverMin
           overlapMax == IF compareVersions(clientMax, serverMax) <= 0 THEN clientMax ELSE serverMax
       IN  IF compareVersions(overlapMin, overlapMax) <= 0
           THEN versionToString(overlapMax)
           ELSE Null

\* negotiateVersion without its catch: the TypeError reaches the caller.
negotiateVersionNoCatch(clientMinVersion, clientMaxVersion, serverMinVersion, serverMaxVersion) ==
  TryNegotiate(clientMinVersion, clientMaxVersion, serverMinVersion, serverMaxVersion)

\* The catch of lines 106-109 returns null.
negotiateVersion(clientMinVersion, clientMaxVersion, serverMinVersion, serverMaxVersion) ==
  LET r == TryNegotiate(clientMinVersion, clientMaxVersion, serverMinVersion, serverMaxVersion)
  IN  IF r = Thrown THEN Null ELSE r

\* ------------------------------------------------------------------------
\* State
\* ------------------------------------------------------------------------

VARIABLES
  vop,       \* the negotiator function under evaluation: "negotiate", "inRange" or "none"
  vargs,     \* its arguments, a tuple of version strings
  vres,      \* its result, or Unset before the call
  tr,        \* the two frame transports: tr["outer"] and tr["inner"]
  allow,     \* the inner window control's allow-list of origins
  chan,      \* chan[t]: the message events queued for window t, in send order
  pending,   \* inner transport's pending-request table: correlation id -> live entries
  settled,   \* settled[id]: what removed the entries of id, in order
  nextId,    \* the next correlation id the inner transport hands out
  toServe,   \* requests delivered to the outer RPC server and not yet answered
  up,        \* up[t]: rpc envelopes handed to the layer above transport t
  rejected,  \* rejected[t]: inbound envelopes transport t rejected
  calls,     \* CopilotApp.callTool invocations: their state and correlation id
  app,       \* CopilotApp: this.client, this.transport, position of initialize()
  disc,      \* the two CopilotApp.disconnect() runs
  noops,     \* lifecycle calls made so far that found nothing to do
  injected,  \* envelopes a third party has posted so far
  dash,      \* the outer page: its status line, the frame, the initializeCopilot runs
  chat,      \* CopilotApp's OpenAI side: the stored key, this.openai, the replies
  cop,       \* CopilotApp with every initialize() run and every transport it created
  store      \* the outer page's patientData, its elements, the tool results

verVars == <<vop, vargs, vres>>

netVars == <<tr, allow, chan, pending, settled, nextId, toServe, up, rejected,
             calls, app, disc, noops, injected>>

pageVars == <<dash, chat, cop, store>>

vars == <<vop, vargs, vres, tr, allow, chan, pending, settled, nextId, toServe,
          up, rejected, calls, app, disc, noops, injected, dash, chat, cop, store>>

\* The negotiator's result before the call, and after it.
Unset == [done |-> FALSE, v |-> <<>>, b |-> FALSE]

Returned(v, b) == [done |-> TRUE, v |-> v, b |-> b]

\* ------------------------------------------------------------------------
\* The version negotiator as a state machine: Init draws the arguments,
\* the actions apply the functions.
\* ------------------------------------------------------------------------

\* The well-formed versions as tuples of numbers: "a" and "a.b" for
\* components up to MaxComp, the versions of spec.md section 8 that are not
\* among them, a three-component and a two-digit one.
Tuples ==
  { <<a>> : a \in 0..MaxComp } \cup
  { <<a, b>> : a \in 0..MaxComp, b \in 0..MaxComp } \cup
  { <<1, 5>>, <<3, 0>>, <<0, 9>>, <<1, 0, 0>>, <<10, 0>> }

\* The decimal numeral of n < 100, and the dotted string of a tuple.
Dec(n) == IF n < 10 THEN <<Digits[n + 1]>> ELSE <<Digits[(n \div 10) + 1], Digits[(n % 10) + 1]>>

RECURSIVE Dotted(_)
Dotted(x) ==
  IF Len(x) = 1 THEN Dec(x[1]) ELSE Dec(x[1]) \o <<".">> \o Dotted(Tail(x))

WellFormed == { Dotted(x) : x \in Tuples }

\* Strings with a component that is no plain decimal number.
Malformed ==
  { <<"1", ".", "x">>, <<"0", "1", ".", "0">>, <<>>, <<"1", "x">> }

Versions == WellFormed \cup Malformed

\* What a caller can pass at run time: the strings, and a value that is none.
Inputs == Versions \cup {Undefined}

\* A small set of strings for the relations between calls: versions that
\* differ only in a trailing ".0" or in a component that is no number.
AppendZero(s) == s \o <<".", "0">>

PadVersions ==
  { <<"1">>, <<"1", ".", "0">>, <<"2">>, <<"0", ".", "9">>, <<"1", ".", "5">>,
    <<"1", ".", "x">>, <<>>, <<"1", "x">>, <<"x", ".", "2">> }

V10 == <<"1", ".", "0">>

V20 == <<"2", ".", "0">>

\* ------------------------------------------------------------------------
\* The frame transports (spec.md sections 3, 4.4, 4.5, 5, 7)
\* ------------------------------------------------------------------------

\* Calls that find nothing to do (a second prepareToConnect, a second close).
MaxNoops == 1

\* Envelopes a third party posts.
MaxInject == 1

\* callTool invocations.
MaxCalls == 2

Sides == {"outer", "inner"}

Peer(t) == IF t = "outer" THEN "inner" ELSE "outer"

States == {"idle", "preparing", "handshaking", "connected", "closing", "closed", "failed"}

Kinds == {"handshake-init", "handshake-ack", "rpc", "close"}

\* Each page's own origin, and the origin of a third party.
OriginOf(t) == IF t = "outer" THEN "https://outer" ELSE "https://inner"

EvilOrigin == "https://evil"

\* The outer transport's session id (generateSessionId()), a session id of
\* some other session, and no session.
OuterSid == "s1"

ForeignSid == "sX"

NoSid == "none"

NoVersion == <<>>

CorrIds == 1..MaxCalls

Transport(min, max, sid) ==
  [state |-> "idle", sessionId |-> sid, min |-> min, max |-> max,
   negotiated |-> NoVersion, listeners |-> 0, teardowns |-> 0, err |-> "none"]

\* One postMessage: the envelope and the origin the receiving event records.
Envelope(sid, kind, body, origin) ==
  [sessionId |-> sid, kind |-> kind, body |-> body, origin |-> origin]

\* The ranges the outer transport is constructed with in the two end-to-end
\* scenarios of spec.md section 8.
OuterRanges == { <<V10, V10>>, <<V20, V20>> }

\* The outer page's status line after showLoading(), showConnected(),
\* showError() (patient-dashboard.ts lines 1152-1174).
showLoading == "Connecting..."

showConnected == "Connected"

showError == "Disconnected"

\* The inner page's status line after ChatUI's showConnecting(),
\* showConnectedWithOpenAI(), showDisconnected() (part_001 lines 85-123);
\* its showConnected() writes the text of the outer page's.
showConnecting == "Connecting..."

showConnectedWithOpenAI == "Connected (OpenAI)"

showDisconnected == "Disconnected"

\* The display of the frame, the loading panel and the error panel before
\* any show method has run.
NoView == [iframe |-> "none", loading |-> "none", error |-> "none"]

\* The outer page before DOMContentLoaded: no initializeCopilot run yet, the
\* frame blank, no session id generated.
DashIdle == [ui |-> "none", view |-> NoView, frame |-> "blank", gen |-> 0, runs |-> <<>>]

\* CopilotApp as constructed: this.openai = null (part_001 line 191), no key
\* stored, no message handled.
ChatIdle == [key |-> FALSE, openai |-> FALSE, reinit |-> FALSE, msgs |-> <<>>]

\* CopilotApp as constructed, with its history: this.transport and
\* this.client are null (0; otherwise the number of the transport, and of
\* the run that created the client), no initialize() has run, no transport
\* was created, saveApiKey has not called disconnect(), which has cleared
\* the two fields `clears` times.
CopIdle == [transport |-> 0, client |-> 0, runs |-> <<>>, insts |-> <<>>,
            discs |-> <<>>, clears |-> 0]

\* patientData as declared (patient-dashboard.ts lines 60-61).
PatientData == [bloodPressure |-> <<120, 80>>, bloodSugar |-> 95]

\* The outer page with the elements "last-bp" and "last-sugar" in its
\* document or not, window.patientDashboard assigned (line 466), and no tool
\* called yet.
StorePage(bp, sugar) ==
  [patientData |-> PatientData, lastBp |-> bp, lastSugar |-> sugar,
   patientDashboard |-> TRUE, results |-> <<>>]

\* The two pages with the inner page at pc: the outer transport constructed
\* with range r and a generated session id, the inner window control with
\* allow-list a, the inner transport with the range of part_001 lines 239-240.
NetInitPage(r, a, pc, bp, sugar) ==
  /\ tr = [t \in Sides |->
            IF t = "outer" THEN Transport(r[1], r[2], OuterSid)
            ELSE Transport(V10, V10, NoSid)]
  /\ allow = a
  /\ chan = [t \in Sides |-> <<>>]
  /\ pending = [i \in CorrIds |-> 0]
  /\ settled = [i \in CorrIds |-> <<>>]
  /\ nextId = 1
  /\ toServe = {}
  /\ up = [t \in Sides |-> 0]
  /\ rejected = [t \in Sides |-> 0]
  /\ calls = <<>>
  /\ app = [client |-> FALSE, transport |-> FALSE, pc |-> pc,
            ui |-> IF pc = "unloaded" THEN "none" ELSE showConnecting]
  /\ disc = [d \in {"saveApiKey", "beforeunload"} |-> "idle"]
  /\ noops = 0
  /\ injected = 0
  /\ dash = DashIdle
  /\ chat = ChatIdle
  /\ cop = CopIdle
  /\ store = StorePage(bp, sugar)

\* The same with both elements in the outer page's document.
NetInitFrom(r, a, pc) == NetInitPage(r, a, pc, TRUE, TRUE)

\* The inner page's DOMContentLoaded handler has run: the app is
\* constructed and initialize() waits in its 500 ms delay (part_001 211).
NetInit(r, a) == NetInitFrom(r, a, "start")

\* The allow-list of part_001 line 233 and a strict one.
AllowLists == { {"*"}, {OriginOf("outer")} }

InitNet == \E r \in OuterRanges : \E a \in AllowLists : NetInit(r, a)

RangeBody(min, max) == [min |-> min, max |-> max, id |-> 0, dir |-> "none"]

VersionBody(v) == [min |-> v, max |-> v, id |-> 0, dir |-> "none"]

RpcBody(id, dir) == [min |-> NoVersion, max |-> NoVersion, id |-> id, dir |-> dir]

\* --- lifecycle, on one transport record x --------------------------------

\* prepareToConnect() that takes a failed transport back into service.
prepareToConnectRetry(x) ==
  IF x.state \in {"idle", "failed"}
  THEN [x EXCEPT !.state = "preparing", !.listeners = 1]
  ELSE x

\* prepareToConnect() that registers its listener on every call before the
\* handshake.
prepareToConnectAgain(x) ==
  IF x.state \in {"idle", "preparing"}
  THEN [x EXCEPT !.state = "preparing", !.listeners = @ + 1]
  ELSE x

\* prepareToConnect(): attaches the message listener on the first call.
prepareToConnect(x) ==
  IF x.state = "idle"
  THEN [x EXCEPT !.state = "preparing", !.listeners = @ + 1]
  ELSE x

\* Does close() find a transport it has not torn down yet?
NeedsTeardown(x) == x.state \notin {"closing", "closed"}

\* close() that only tests for a transport already closed.
closeUnlessClosed(x) ==
  IF x.state # "closed"
  THEN [x EXCEPT !.state = "closing", !.listeners = 0, !.teardowns = @ + 1]
  ELSE x

\* close(), its synchronous part: detach the listener, cancel the timers
\* (they are guarded by the state), fail the pending entries (FailAll below).
close(x) ==
  IF NeedsTeardown(x)
  THEN [x EXCEPT !.state = "closing", !.listeners = 0, !.teardowns = @ + 1]
  ELSE x

\* close() resolving.
closed(x) == [x EXCEPT !.state = "closed"]

\* A transport giving up: handshake timeout, version mismatch, frame fault.
fail(x, error) == [x EXCEPT !.state = "failed", !.err = error]

\* --- tool names and the mock responses (part_001 lines 667-752) ------------

Upper == <<"A", "B", "C", "D", "E", "F", "G", "H", "I", "J", "K", "L", "M",
           "N", "O", "P", "Q", "R", "S", "T", "U", "V", "W", "X", "Y", "Z">>

Lower == <<"a", "b", "c", "d", "e", "f", "g", "h", "i", "j", "k", "l", "m",
           "n", "o", "p", "q", "r", "s", "t", "u", "v", "w", "x", "y", "z">>

\* String.prototype.toLowerCase and String.prototype.includes.
toLowerCase(w) ==
  [i \in 1..Len(w) |->
     IF \E k \in 1..26 : Upper[k] = w[i]
     THEN Lower[CHOOSE k \in 1..26 : Upper[k] = w[i]]
     ELSE w[i]]

includes(w, sub) ==
  \E i \in 0..(Len(w) - Len(sub)) : SubSeq(w, i + 1, i + Len(sub)) = sub

\* Tools the dashboard registers (patient-dashboard.ts lines 624, 674 and
\* 965) and a tool of the chatbot demo (part_000 line 518), a name none of
\* the mock responses of part_001 is written for.
updateBloodPressure == <<"u", "p", "d", "a", "t", "e", "B", "l", "o", "o", "d", "P", "r", "e", "s", "s", "u", "r", "e">>

updateBloodSugar == <<"u", "p", "d", "a", "t", "e", "B", "l", "o", "o", "d", "S", "u", "g", "a", "r">>

getContextTool == <<"g", "e", "t", "C", "o", "n", "t", "e", "x", "t">>

getSystemHealth == <<"g", "e", "t", "S", "y", "s", "t", "e", "m", "H", "e", "a", "l", "t", "h">>

ToolNames == {updateBloodPressure, getContextTool, getSystemHealth}

\* The text a tool of the dashboard answers with.
ToolText == <<"text">>

\* No reply yet.
NoReply == <<>>

\* getMockToolResponse, lines 667-752: the text chosen by the first of the
\* tests on the lower-cased name that holds; the last one quotes the name.
getMockToolResponse(toolName) ==
  LET lowerToolName == toLowerCase(toolName)
  IN  IF includes(lowerToolName, <<"b", "l", "o", "o", "d", "p", "r", "e", "s", "s", "u", "r", "e">>) THEN <<"mock", "Blood Pressure Updated">>
      ELSE IF includes(lowerToolName, <<"b", "l", "o", "o", "d", "s", "u", "g", "a", "r">>) THEN <<"mock", "Blood Sugar Updated">>
      ELSE IF includes(lowerToolName, <<"c", "o", "n", "t", "e", "x", "t">>) \/ includes(lowerToolName, <<"i", "n", "f", "o">>)
      THEN <<"mock", "Current Patient Information">>
      ELSE IF includes(lowerToolName, <<"m", "e", "d", "i", "c", "a", "t", "i", "o", "n">>) THEN <<"mock", "Medication Added">>
      ELSE IF includes(lowerToolName, <<"a", "l", "l", "e", "r", "g">>) THEN <<"mock", "Allergies Updated">>
      ELSE IF includes(lowerToolName, <<"a", "p", "p", "o", "i", "n", "t", "m", "e", "n", "t">>) THEN <<"mock", "Appointment Scheduled">>
      ELSE IF includes(lowerToolName, <<"h", "i", "s", "t", "o", "r", "y">>) THEN <<"mock", "Medical History Entry Added">>
      ELSE <<"mock", "executed in mock mode", toolName>>

\* --- the pending-request table --------------------------------------------

\* A correlation id handed out again.
SameCorrId(id) == id

\* The correlation id after id.
NextCorrId(id) == id + 1

\* An entry for id is created when the call is issued.
AddEntry(p, id) == [p EXCEPT ![id] = @ + 1]

\* The entries of the ids in ids are removed, with `cause` as their outcome.
RemoveEntries(p, ids) == [i \in CorrIds |-> IF i \in ids THEN 0 ELSE p[i]]

Live(p) == { i \in CorrIds : p[i] > 0 }

Settle(s, ids, cause) ==
  [i \in CorrIds |-> IF i \in ids THEN Append(s[i], cause) ELSE s[i]]

\* callTool without its catch: only a response resumes the caller.
ResumeOnResponse(cs, ids, cause) ==
  [c \in DOMAIN cs |->
     IF cs[c].st = "awaiting" /\ cs[c].id \in ids /\ cause = "response"
     THEN [cs[c] EXCEPT !.st = "result", !.reply = ToolText]
     ELSE cs[c]]

\* callTool whose catch throws the error on to its caller.
ResumeRethrow(cs, ids, cause) ==
  [c \in DOMAIN cs |->
     IF cs[c].st = "awaiting" /\ cs[c].id \in ids
     THEN IF cause = "response"
          THEN [cs[c] EXCEPT !.st = "result", !.reply = ToolText]
          ELSE [cs[c] EXCEPT !.st = "thrown"]
     ELSE cs[c]]

\* callTool's continuation: a response gives the tool's text; a rejection is
\* caught and answered with the mock response (part_001 lines 654-664).
Resume(cs, ids, cause) ==
  [c \in DOMAIN cs |->
     IF cs[c].st = "awaiting" /\ cs[c].id \in ids
     THEN IF cause = "response"
          THEN [cs[c] EXCEPT !.st = "result", !.reply = ToolText]
          ELSE [cs[c] EXCEPT !.st = "mock", !.reply = getMockToolResponse(cs[c].tool)]
     ELSE cs[c]]

\* The ids close() fails: every live entry of the table.
FailAll(p) == Live(p)

\* close() called on transport t: the transport record, and for the inner
\* transport (the only one with callers) its pending table.
CloseCall(t) ==
  LET ids == IF t = "inner" /\ NeedsTeardown(tr[t]) THEN FailAll(pending) ELSE {}
  IN  /\ tr' = [tr EXCEPT ![t] = close(tr[t])]
      /\ pending' = RemoveEntries(pending, ids)
      /\ settled' = Settle(settled, ids, "TransportClosed")
      /\ calls' = Resume(calls, ids, "TransportClosed")

\* --- envelope validation (spec.md section 4.5) ----------------------------

\* (1) the origin: the allow-list on the inner side ("*" accepts any), the
\* frame's own origin on the outer side.
OriginOk(t, e) ==
  IF t = "inner" THEN "*" \in allow \/ e.origin \in allow
  ELSE e.origin = OriginOf("inner")

\* (2) the payload is one of the envelope variants.
ShapeOk(e) == e.kind \in Kinds

\* No session check.
AnySession(x, e) == TRUE

\* (3) the session of a transport that has one and has started its handshake.
SessionOk(x, e) ==
  x.state \in {"handshaking", "connected"} => e.sessionId = x.sessionId

Accepts(t, e) == OriginOk(t, e) /\ ShapeOk(e) /\ SessionOk(tr[t], e)

\* --- actions ---------------------------------------------------------------

\* prepareToConnect() called on transport t by the page that owns it.
Prepare(t) ==
  /\ tr[t].state # "idle" => noops < MaxNoops
  /\ noops' = IF tr[t].state # "idle" THEN noops + 1 ELSE noops
  /\ tr' = [tr EXCEPT ![t] = prepareToConnect(tr[t])]
  /\ UNCHANGED <<verVars, pageVars, allow, chan, pending, settled, nextId, toServe, up,
                 rejected, calls, app, disc, injected>>

\* The RPC server's connect(transport) starts the outer transport: it sends
\* the handshake-init with its session id and version range.
Start ==
  /\ tr["outer"].state = "preparing"
  /\ tr' = [tr EXCEPT !["outer"].state = "handshaking"]
  /\ chan' = [chan EXCEPT !["inner"] =
                Append(@, Envelope(tr["outer"].sessionId, "handshake-init",
                                   RangeBody(tr["outer"].min, tr["outer"].max),
                                   OriginOf("outer")))]
  /\ UNCHANGED <<verVars, pageVars, allow, pending, settled, nextId, toServe, up,
                 rejected, calls, app, disc, noops, injected>>

\* close() called on transport t by its owner.
Close(t) ==
  /\ ~NeedsTeardown(tr[t]) => noops < MaxNoops
  /\ noops' = IF NeedsTeardown(tr[t]) THEN noops ELSE noops + 1
  /\ CloseCall(t)
  /\ UNCHANGED <<verVars, pageVars, allow, chan, nextId, toServe, up, rejected, app,
                 disc, injected>>

\* close() of transport t resolves.
CloseDone(t) ==
  /\ tr[t].state = "closing"
  /\ tr' = [tr EXCEPT ![t] = closed(tr[t])]
  /\ UNCHANGED <<verVars, pageVars, allow, chan, pending, settled, nextId, toServe, up,
                 rejected, calls, app, disc, noops, injected>>

\* The handshake timer of transport t fires: the outer transport waits for
\* the ack while handshaking, the inner one for the handshake from the
\* moment it listens.
WaitsForHandshake(t) ==
  IF t = "outer" THEN tr[t].state = "handshaking"
  ELSE tr[t].state \in {"preparing", "handshaking"}

HandshakeTimeout(t) ==
  /\ WaitsForHandshake(t)
  /\ tr' = [tr EXCEPT ![t] = fail(tr[t], "HandshakeTimeout")]
  /\ UNCHANGED <<verVars, pageVars, allow, chan, pending, settled, nextId, toServe, up,
                 rejected, calls, app, disc, noops, injected>>

\* The outer window control reports a frame fault (its onError).
ControlFault ==
  /\ tr["outer"].state \in {"idle", "preparing", "handshaking", "connected"}
  /\ tr' = [tr EXCEPT !["outer"] = fail(tr["outer"], "NavigationFailed")]
  /\ UNCHANGED <<verVars, pageVars, allow, chan, pending, settled, nextId, toServe, up,
                 rejected, calls, app, disc, noops, injected>>

\* The ranges a handshake envelope carries or a transport declares, and the
\* negotiator's result for each pair of them (client range, server range).
HandshakeRanges == OuterRanges \cup { <<V10, V10>> }

Negotiated ==
  [c \in HandshakeRanges, s \in HandshakeRanges |->
     negotiateVersion(c[1], c[2], s[1], s[2])]

\* What the outer transport does with an accepted envelope e; q is the
\* queues once e is taken. The inner side is the client of the negotiation.
OuterRoute(e, q) ==
  LET x == tr["outer"]
      v == Negotiated[<<e.body.min, e.body.max>>, <<x.min, x.max>>]
  IN  IF e.kind = "handshake-ack" /\ x.state = "handshaking"
      THEN IF v = Null
           THEN /\ tr' = [tr EXCEPT !["outer"] = fail(x, "VersionIncompatible")]
                /\ chan' = q
                /\ UNCHANGED <<up, toServe>>
           ELSE /\ tr' = [tr EXCEPT !["outer"].state = "connected",
                                    !["outer"].negotiated = v]
                /\ chan' = [q EXCEPT !["inner"] =
                              Append(@, Envelope(x.sessionId, "handshake-ack",
                                                 VersionBody(v), OriginOf("outer")))]
                /\ UNCHANGED <<up, toServe>>
      ELSE IF e.kind = "rpc" /\ x.state = "connected"
      THEN /\ up' = [up EXCEPT !["outer"] = @ + 1]
           /\ toServe' = IF e.body.dir = "req" THEN toServe \cup {e.body.id} ELSE toServe
           /\ chan' = q
           /\ UNCHANGED tr
      ELSE /\ chan' = q
           /\ UNCHANGED <<tr, up, toServe>>

\* The ids a response for id removes from the table: id if it has an entry.
Matching(p, id) == IF id \in CorrIds /\ p[id] > 0 THEN {id} ELSE {}

\* An inner transport that starts the handshake over on every
\* handshake-init it accepts.
InnerRouteRestart(e, q) ==
  LET x == tr["inner"]
      ids == IF e.kind = "rpc" /\ x.state = "connected" /\ e.body.dir = "resp"
             THEN Matching(pending, e.body.id) ELSE {}
  IN  /\ pending' = RemoveEntries(pending, ids)
      /\ settled' = Settle(settled, ids, "response")
      /\ calls' = Resume(calls, ids, "response")
      /\ IF e.kind = "handshake-init" /\ x.state \in {"preparing", "handshaking", "connected"}
         THEN /\ tr' = [tr EXCEPT !["inner"].state = "handshaking",
                                  !["inner"].sessionId = e.sessionId]
              /\ chan' = [q EXCEPT !["outer"] =
                            Append(@, Envelope(e.sessionId, "handshake-ack",
                                               RangeBody(x.min, x.max), OriginOf("inner")))]
              /\ UNCHANGED up
         ELSE IF e.kind = "handshake-ack" /\ x.state = "handshaking"
         THEN /\ tr' = [tr EXCEPT !["inner"].state = "connected",
                                  !["inner"].negotiated = e.body.max]
              /\ chan' = q
              /\ UNCHANGED up
         ELSE IF e.kind = "rpc" /\ x.state = "connected"
         THEN /\ up' = [up EXCEPT !["inner"] = @ + 1]
              /\ chan' = q
              /\ UNCHANGED tr
         ELSE /\ chan' = q
              /\ UNCHANGED <<tr, up>>

\* What the inner transport does with an accepted envelope e.
InnerRoute(e, q) ==
  LET x == tr["inner"]
      ids == IF e.kind = "rpc" /\ x.state = "connected" /\ e.body.dir = "resp"
             THEN Matching(pending, e.body.id) ELSE {}
  IN  /\ pending' = RemoveEntries(pending, ids)
      /\ settled' = Settle(settled, ids, "response")
      /\ calls' = Resume(calls, ids, "response")
      /\ IF e.kind = "handshake-init" /\ x.state = "preparing"
         THEN /\ tr' = [tr EXCEPT !["inner"].state = "handshaking",
                                  !["inner"].sessionId = e.sessionId]
              /\ chan' = [q EXCEPT !["outer"] =
                            Append(@, Envelope(e.sessionId, "handshake-ack",
                                               RangeBody(x.min, x.max), OriginOf("inner")))]
              /\ UNCHANGED up
         ELSE IF e.kind = "handshake-ack" /\ x.state = "handshaking"
         THEN /\ tr' = [tr EXCEPT !["inner"].state = "connected",
                                  !["inner"].negotiated = e.body.max]
              /\ chan' = q
              /\ UNCHANGED up
         ELSE IF e.kind = "rpc" /\ x.state = "connected"
         THEN /\ up' = [up EXCEPT !["inner"] = @ + 1]
              /\ chan' = q
              /\ UNCHANGED tr
         ELSE /\ chan' = q
              /\ UNCHANGED <<tr, up>>

\* The message event e is dispatched in window t: lost when no transport
\* listens, ignored by a failed transport, rejected by validation, or routed.
Dispatch(t, e, q) ==
  IF tr[t].listeners = 0 \/ tr[t].state = "failed"
  THEN /\ chan' = q
       /\ UNCHANGED <<tr, pending, settled, calls, up, toServe, rejected>>
  ELSE IF ~Accepts(t, e)
  THEN /\ chan' = q
       /\ rejected' = [rejected EXCEPT ![t] = @ + 1]
       /\ UNCHANGED <<tr, pending, settled, calls, up, toServe>>
  ELSE IF t = "outer"
  THEN OuterRoute(e, q) /\ UNCHANGED <<pending, settled, calls, rejected>>
  ELSE InnerRoute(e, q) /\ UNCHANGED <<toServe, rejected>>

\* The {type: "copilot-ready"} message of part_001 lines 859-865: no
\* envelope of the transport.
ReadySignal == Envelope(NoSid, "copilot-ready", RpcBody(0, "none"), OriginOf("inner"))

\* A copilot-ready handler that shows the page as connected.
copilotReadyConnected(d) ==
  [d EXCEPT !.ui = "Connected",
            !.view = [iframe |-> "block", loading |-> "none", error |-> "none"]]

\* The outer page's handling of copilot-ready (patient-dashboard.ts lines
\* 1309-1321): the frame is displayed and the loading panel hidden.
copilotReady(d) == [d EXCEPT !.view.iframe = "block", !.view.loading = "none"]

\* The outer page's own message listener (lines 1307-1322), registered at
\* DOMContentLoaded just before the first initializeCopilot(): it acts on
\* copilot-ready and on nothing else; the inner page's (part_001 842-854)
\* only answers test messages, which nobody sends.
onMessage(t, e, d) ==
  IF t = "outer" /\ d.runs # <<>> /\ e.kind = "copilot-ready" THEN copilotReady(d) ELSE d

\* The next message the peer posted to window t is dispatched, to the
\* transport's listener and to the page's.
Deliver(t) ==
  /\ chan[t] # <<>>
  /\ Dispatch(t, Head(chan[t]), [chan EXCEPT ![t] = Tail(@)])
  /\ dash' = onMessage(t, Head(chan[t]), dash)
  /\ UNCHANGED <<verVars, cop, store, chat, allow, nextId, app, disc, noops, injected>>

\* The timer of pending request id fires.
RpcTimeout(id) ==
  /\ pending[id] > 0
  /\ pending' = RemoveEntries(pending, {id})
  /\ settled' = Settle(settled, {id}, "timeout")
  /\ calls' = Resume(calls, {id}, "timeout")
  /\ UNCHANGED <<verVars, pageVars, tr, allow, chan, nextId, toServe, up, rejected, app,
                 disc, noops, injected>>

\* The outer RPC server answers request id.
Respond(id) ==
  /\ id \in toServe
  /\ tr["outer"].state = "connected"
  /\ toServe' = toServe \ {id}
  /\ chan' = [chan EXCEPT !["inner"] =
                Append(@, Envelope(tr["outer"].sessionId, "rpc", RpcBody(id, "resp"),
                                   OriginOf("outer")))]
  /\ UNCHANGED <<verVars, pageVars, tr, allow, pending, settled, nextId, up, rejected,
                 calls, app, disc, noops, injected>>

\* The envelopes a third party (or a stale session of the peer) can post to
\* window t: each has a foreign origin, a foreign session id or no known kind.
Forged(t) ==
  LET body == IF t = "outer" THEN RpcBody(1, "req") ELSE RpcBody(1, "resp")
      hs == IF t = "outer" THEN RangeBody(V10, V10) ELSE VersionBody(V10)
  IN  { Envelope(ForeignSid, k, IF k = "rpc" THEN body ELSE hs, o) :
          k \in {"handshake-init", "handshake-ack", "rpc"},
          o \in {EvilOrigin, OriginOf(Peer(t))} }
      \cup { Envelope(OuterSid, "bogus", body, OriginOf(Peer(t))) }

\* A message event e that some other window posted is dispatched in window t
\* (such events take their place among the peer's at any time).
Intrude(t, e) ==
  /\ injected < MaxInject
  /\ injected' = injected + 1
  /\ Dispatch(t, e, chan)
  /\ UNCHANGED <<verVars, pageVars, allow, nextId, app, disc, noops>>

\* Handshake envelopes delivered a second time.
MaxReplay == 2

\* The handshake envelopes the peer of t has posted to t, as the peer's
\* state shows them: the outer's handshake-init and final ack, the inner's
\* ack.
SentHandshakes(t) ==
  IF t = "inner"
  THEN (IF tr["outer"].state \in {"handshaking", "connected"}
        THEN { Envelope(tr["outer"].sessionId, "handshake-init",
                        RangeBody(tr["outer"].min, tr["outer"].max), OriginOf("outer")) }
        ELSE {})
       \cup
       (IF tr["outer"].state = "connected"
        THEN { Envelope(tr["outer"].sessionId, "handshake-ack",
                        VersionBody(tr["outer"].negotiated), OriginOf("outer")) }
        ELSE {})
  ELSE IF tr["inner"].state \in {"handshaking", "connected"}
       THEN { Envelope(tr["inner"].sessionId, "handshake-ack",
                       RangeBody(tr["inner"].min, tr["inner"].max), OriginOf("inner")) }
       ELSE {}

\* A handshake envelope e the peer posted is dispatched in window t once
\* more, at any time: before the first copy, after it, or after later ones.
Replay(t, e) ==
  /\ injected < MaxReplay
  /\ e \in SentHandshakes(t)
  /\ injected' = injected + 1
  /\ Dispatch(t, e, chan)
  /\ UNCHANGED <<verVars, pageVars, allow, nextId, app, disc, noops>>

\* --- CopilotApp (src/unnamed/part_001) -------------------------------------

\* The inner page's DOMContentLoaded handler, lines 832-870, once the outer
\* page has navigated the frame: the ready signal is posted to the parent,
\* then the app is constructed and initialize() called, which waits in its
\* 500 ms delay.
DOMContentLoaded ==
  /\ app.pc = "unloaded"
  /\ dash.frame = "loading"
  /\ chan' = [chan EXCEPT !["outer"] = Append(@, ReadySignal)]
  /\ app' = [app EXCEPT !.pc = "start", !.ui = showConnecting]
  /\ UNCHANGED <<verVars, pageVars, tr, allow, pending, settled, nextId, toServe, up,
                 rejected, calls, disc, noops, injected>>

\* initialize(), lines 215-229: with a stored key this.openai is created;
\* without one it is left as it is.
initOpenAI(c) == [c EXCEPT !.openai = IF c.key THEN TRUE ELSE @]

\* initialize(), lines 213-241: the OpenAI client, then
\* this.transport = new InnerFrameTransport(...).
InitCreate ==
  /\ app.pc = "start"
  /\ app' = [app EXCEPT !.transport = TRUE, !.pc = "created"]
  /\ tr' = [tr EXCEPT !["inner"] = Transport(V10, V10, NoSid)]
  /\ chat' = initOpenAI(chat)
  /\ UNCHANGED <<verVars, cop, store, dash, allow, chan, pending, settled, nextId, toServe,
                 up, rejected, calls, disc, noops, injected>>

\* initialize(), lines 245-256: await prepareToConnect(), create the client
\* and call client.connect(transport); a transport that cannot be prepared
\* any more rejects, which the catch of lines 277-296 handles.
InitPrepare ==
  /\ app.pc = "created"
  /\ tr' = [tr EXCEPT !["inner"] = prepareToConnect(tr["inner"])]
  /\ IF tr'["inner"].state \in {"preparing", "handshaking", "connected"}
     THEN app' = [app EXCEPT !.client = TRUE, !.pc = "connecting"]
     ELSE app' = [app EXCEPT !.transport = FALSE, !.client = FALSE, !.pc = "failed",
                             !.ui = showConnected]
  /\ UNCHANGED <<verVars, pageVars, allow, chan, pending, settled, nextId, toServe, up,
                 rejected, calls, disc, noops, injected>>

\* initialize(), line 256 resolving: the transport is connected; lines
\* 262-274 write the status.
InitConnected ==
  /\ app.pc = "connecting"
  /\ tr["inner"].state = "connected"
  /\ app' = [app EXCEPT !.pc = "done",
                        !.ui = IF chat.openai THEN showConnectedWithOpenAI ELSE showConnected]
  /\ UNCHANGED <<verVars, pageVars, tr, allow, chan, pending, settled, nextId, toServe,
                 up, rejected, calls, disc, noops, injected>>

\* initialize(), line 256 rejecting and the catch of lines 277-296: the
\* status is written as connected (line 281), the transport and the client
\* are dropped, nothing is retried.
InitFailed ==
  /\ app.pc = "connecting"
  /\ tr["inner"].state \in {"failed", "closing", "closed"}
  /\ app' = [app EXCEPT !.transport = FALSE, !.client = FALSE, !.pc = "failed",
                        !.ui = showConnected]
  /\ UNCHANGED <<verVars, pageVars, tr, allow, chan, pending, settled, nextId, toServe,
                 up, rejected, calls, disc, noops, injected>>

\* callTool(toolName), lines 641-665: the mock response without a client;
\* otherwise client.callTool, which throws at once on a transport that is
\* not connected (the catch answers with the mock response) and else issues
\* a request with a fresh correlation id.
callTool(toolName) ==
  /\ Len(calls) < MaxCalls
  /\ IF app.client /\ tr["inner"].state = "connected"
     THEN /\ nextId \in CorrIds
          /\ calls' = Append(calls, [st |-> "awaiting", id |-> nextId,
                                     tool |-> toolName, reply |-> NoReply])
          /\ pending' = AddEntry(pending, nextId)
          /\ nextId' = NextCorrId(nextId)
          /\ chan' = [chan EXCEPT !["outer"] =
                        Append(@, Envelope(tr["inner"].sessionId, "rpc",
                                           RpcBody(nextId, "req"), OriginOf("inner")))]
     ELSE /\ calls' = Append(calls, [st |-> "mock", id |-> 0, tool |-> toolName,
                                     reply |-> getMockToolResponse(toolName)])
          /\ UNCHANGED <<pending, nextId, chan>>
  /\ UNCHANGED <<verVars, pageVars, tr, allow, settled, toServe, up, rejected, app, disc,
                 noops, injected>>

\* disconnect(), lines 755-756: close the transport if there is one; run d
\* is the one saveApiKey starts or the one beforeunload starts.
disconnect(d) ==
  /\ app.pc # "start"
  /\ disc[d] = "idle"
  /\ IF app.transport
     THEN /\ disc' = [disc EXCEPT ![d] =
                        IF NeedsTeardown(tr["inner"]) THEN "awaitClose" ELSE "awaitNoop"]
          /\ CloseCall("inner")
          /\ UNCHANGED app
     ELSE /\ disc' = [disc EXCEPT ![d] = "done"]
          /\ app' = [app EXCEPT !.client = FALSE, !.ui = showDisconnected]
          /\ UNCHANGED <<tr, pending, settled, calls>>
  /\ UNCHANGED <<verVars, pageVars, allow, chan, nextId, toServe, up, rejected, noops, injected>>

\* disconnect(), lines 757-760, once its close() has resolved: a close()
\* that tore the transport down resolves when it is closed, one that found
\* nothing to do at any time.
disconnectDone(d) ==
  /\ \/ disc[d] = "awaitClose" /\ tr["inner"].state = "closed"
     \/ disc[d] = "awaitNoop"
  /\ disc' = [disc EXCEPT ![d] = "done"]
  /\ app' = [app EXCEPT !.transport = FALSE, !.client = FALSE, !.ui = showDisconnected]
  /\ UNCHANGED <<verVars, pageVars, tr, allow, chan, pending, settled, nextId, toServe,
                 up, rejected, calls, noops, injected>>

\* --- CopilotApp: the OpenAI key and the user's messages ---------------------

\* Messages the user sends.
MaxMsgs == 2

\* window.saveApiKey, lines 801-824: a non-empty input (k) is stored and the
\* app is disconnected and initialized again; an empty one removes the key.
saveApiKey(k) ==
  /\ k => (disc["saveApiKey"] = "idle" /\ ~chat.reinit)
  /\ chat' = IF k THEN [chat EXCEPT !.key = TRUE, !.reinit = TRUE]
             ELSE [chat EXCEPT !.key = FALSE]
  /\ UNCHANGED <<verVars, cop, store, netVars, dash>>

\* The disconnect() saveApiKey starts (line 812).
SaveDisconnect == chat.reinit /\ disconnect("saveApiKey")

\* Lines 812-816: 1000 ms after disconnect() has resolved initialize() is
\* called again (here: once the first initialize() has ended).
Reinitialize ==
  /\ chat.reinit
  /\ disc["saveApiKey"] = "done"
  /\ app.pc \in {"done", "failed"}
  /\ chat' = [chat EXCEPT !.reinit = FALSE]
  /\ app' = [app EXCEPT !.pc = "start", !.ui = showConnecting]
  /\ UNCHANGED <<verVars, cop, store, dash, tr, allow, chan, pending, settled, nextId, toServe,
                 up, rejected, calls, disc, noops, injected>>

\* What handling one message comes to: who wrote the reply and how often
\* this.callTool went to client.callTool. `listed` says that there is a
\* client whose listTools() is answered, `intent` that the message matches
\* one of the rules that call a tool (lines 549-592), `first` and `format`
\* are the outcomes of the two OpenAI requests.

\* detectIntentAndCallTool, lines 534-639: the number of tool calls it makes.
detectIntentAndCallTool(listed, intent) == IF listed /\ intent THEN 1 ELSE 0

\* processWithRules, lines 507-532.
processWithRules(listed, intent) ==
  [reply |-> "rules", toolCalls |-> detectIntentAndCallTool(listed, intent)]

\* processWithOpenAI, lines 365-466: with tools listed the first request may
\* come back with a function call, which is executed (line 416) before the
\* second request formats its result (line 419); whatever throws inside
\* the try is answered by processWithRules (lines 461-465).
processWithOpenAI(listed, first, format, intent) ==
  IF first = "fail" THEN processWithRules(listed, intent)
  ELSE IF listed /\ first = "function_call"
  THEN IF format = "ok"
       THEN [reply |-> "openai", toolCalls |-> 1]
       ELSE [processWithRules(listed, intent) EXCEPT !.toolCalls = @ + 1]
  ELSE [reply |-> "openai", toolCalls |-> 0]

\* processUserMessage, lines 355-363.
processUserMessage(openai, listed, first, format, intent) ==
  IF openai THEN processWithOpenAI(listed, first, format, intent)
  ELSE processWithRules(listed, intent)

\* handleUserMessage, lines 336-353, for one message of the user; outcomes
\* that are not looked at are fixed.
UserMessage(first, format, intent) ==
  /\ Len(chat.msgs) < MaxMsgs
  /\ LET listed == app.client /\ tr["inner"].state = "connected"
         r == processUserMessage(chat.openai, listed, first, format, intent)
     IN  /\ ~chat.openai => first = "text"
         /\ ~(chat.openai /\ listed /\ first = "function_call") => format = "ok"
         /\ ~listed => (first # "function_call" /\ ~intent)
         /\ chat' = [chat EXCEPT !.msgs =
                       Append(@, [key |-> chat.key,
                                  requested |-> chat.openai,
                                  failed |-> chat.openai /\ (first = "fail" \/ format = "fail"),
                                  reply |-> r.reply,
                                  toolCalls |-> r.toolCalls])]
  /\ UNCHANGED <<verVars, cop, store, netVars, dash>>

\* --- the outer page (src/src/demo/inverted/patient-dashboard.ts) -----------

\* initializeCopilot runs: the first at DOMContentLoaded, the others by the
\* retry button.
MaxRuns == 2

\* The n-th session id handed out by generateSessionId() ($sdk/utils/helpers):
\* no two calls give the same id.
generateSessionId(n) == n + 1

\* A session id made once for the page, whatever the run.
SharedSessionId(n) == generateSessionId(0)

\* Line 1240: each run asks for a session id of its own; n ids were handed
\* out before.
RunSessionId(n) == generateSessionId(n)

\* A run with neither the fallback timer nor the 30 s timer.
BeginRunUnbounded(sid) ==
  [pc |-> "navigate", fallback |-> "cleared", race |-> "resolved",
   listening |-> TRUE, sid |-> sid, did |-> {}]

\* A run of initializeCopilot as it stands at its first await (line 1244):
\* the fallback timer armed (1190), the load listener attached (1214), the
\* transport constructed with session id sid (1238), navigate called, the
\* 30 s timer of Promise.race armed (1276-1284).
BeginRun(sid) ==
  [pc |-> "navigate", fallback |-> "armed", race |-> "pending",
   listening |-> TRUE, sid |-> sid, did |-> {}]

\* server.connect before prepareToConnect.
AfterAwaitConnectFirst(pc) ==
  IF pc = "navigate" THEN "waitLoad"
  ELSE IF pc = "waitLoad" THEN "settle"
  ELSE IF pc = "settle" THEN "connect"
  ELSE IF pc = "connect" THEN "prepare"
  ELSE "done"

\* The await that follows the one at pc in initializeWithTimeout: navigate
\* (1244), the frame's load (1249), the 1000 ms delay (1261),
\* prepareToConnect (1264), server.connect (1268), then the end (1271).
AfterAwait(pc) ==
  IF pc = "navigate" THEN "waitLoad"
  ELSE IF pc = "waitLoad" THEN "settle"
  ELSE IF pc = "settle" THEN "prepare"
  ELSE IF pc = "prepare" THEN "connect"
  ELSE "done"

\* What a resolved await and the call that follows it leave in the run's
\* record of what it did.
Resolved(pc) ==
  IF pc = "navigate" THEN {"navigated"}
  ELSE IF pc = "prepare" THEN {"prepared"}
  ELSE {}

Called(pc) ==
  IF pc = "prepare" THEN {"prepareCalled"}
  ELSE IF pc = "connect" THEN {"connectCalled"}
  ELSE {}

\* The run once its await has resolved: a frame already complete needs no
\* wait for its load event (line 1251); reaching the end settles the race
\* if nothing has yet.
Advance(run, frame) ==
  LET n == AfterAwait(run.pc)
      m == IF n = "waitLoad" /\ frame = "complete" THEN AfterAwait(n) ELSE n
  IN  [run EXCEPT !.pc = m,
                  !.did = @ \cup Resolved(run.pc) \cup Called(m),
                  !.race = IF m = "done" /\ @ = "pending" THEN "resolved" ELSE @]

\* clearTimeout(fallbackTimeout): a timer that has fired stays fired.
clearTimeout(run) == [run EXCEPT !.fallback = IF @ = "armed" THEN "cleared" ELSE @]

\* The displays the method that writes status also sets (lines 1152-1174).
Display(status) ==
  IF status = showLoading THEN [iframe |-> "none", loading |-> "flex", error |-> "none"]
  ELSE IF status = showConnected THEN [iframe |-> "block", loading |-> "none", error |-> "none"]
  ELSE [iframe |-> "none", loading |-> "none", error |-> "flex"]

\* initializeCopilot(), lines 1185-1244 up to the first await; a retry is
\* offered by the error panel.
initializeCopilot ==
  /\ Len(dash.runs) < MaxRuns
  /\ dash.runs = <<>> \/ dash.ui = showError
  /\ dash' = [dash EXCEPT !.ui = showLoading,
                          !.view = Display(showLoading),
                          !.frame = "loading",
                          !.gen = @ + 1,
                          !.runs = Append(@, BeginRun(RunSessionId(dash.gen)))]
  /\ UNCHANGED <<verVars, cop, store, netVars, chat>>

\* The frame's load event, which follows the inner page's DOMContentLoaded:
\* the load listener of every run (1214-1221) clears that run's fallback
\* timer and shows the frame; a run waiting for the load (1254) goes on.
FrameLoad ==
  /\ dash.frame = "loading"
  /\ app.pc # "unloaded"
  /\ dash' = [dash EXCEPT
                !.frame = "complete",
                !.ui = IF \E r \in DOMAIN dash.runs : dash.runs[r].listening
                       THEN showConnected ELSE @,
                !.view = IF \E r \in DOMAIN dash.runs : dash.runs[r].listening
                         THEN Display(showConnected) ELSE @,
                !.runs = [r \in DOMAIN dash.runs |->
                            LET run == IF dash.runs[r].listening
                                       THEN clearTimeout(dash.runs[r]) ELSE dash.runs[r]
                            IN  IF run.pc = "waitLoad" THEN Advance(run, "complete") ELSE run]]
  /\ UNCHANGED <<verVars, cop, store, netVars, chat>>

\* The await of run r resolves (navigate, the delay, prepareToConnect,
\* server.connect); line 1271 shows "Connected" at the end, whatever the
\* race has settled to.
AwaitResolved(r) ==
  /\ r \in DOMAIN dash.runs
  /\ dash.runs[r].pc \in {"navigate", "settle", "prepare", "connect"}
  /\ LET run == Advance(dash.runs[r], dash.frame)
     IN  dash' = [dash EXCEPT !.runs[r] = run,
                              !.ui = IF run.pc = "done" THEN showConnected ELSE @,
                              !.view = IF run.pc = "done" THEN Display(showConnected) ELSE @]
  /\ UNCHANGED <<verVars, cop, store, netVars, chat>>

\* The catch of lines 1285-1296, entered when the race rejects.
catch(d, r) ==
  [d EXCEPT !.runs[r] = [clearTimeout(d.runs[r]) EXCEPT !.race = "rejected"],
            !.ui = showError,
            !.view = Display(showError)]

\* The await of run r rejects (navigate, prepareToConnect, server.connect):
\* the run ends there; the catch runs if the race is not settled.
AwaitRejected(r) ==
  /\ r \in DOMAIN dash.runs
  /\ dash.runs[r].pc \in {"navigate", "prepare", "connect"}
  /\ LET d == [dash EXCEPT !.runs[r].pc = "threw"]
     IN  dash' = IF dash.runs[r].race = "pending" THEN catch(d, r) ELSE d
  /\ UNCHANGED <<verVars, cop, store, netVars, chat>>

\* The 30 s timer of run r (1278-1283) rejects the race; the run itself is
\* not stopped.
RaceTimeout(r) ==
  /\ r \in DOMAIN dash.runs
  /\ dash.runs[r].race = "pending"
  /\ dash' = catch(dash, r)
  /\ UNCHANGED <<verVars, cop, store, netVars, chat>>

\* The 5 s fallback timer of run r fires (1190-1193).
FallbackFire(r) ==
  /\ r \in DOMAIN dash.runs
  /\ dash.runs[r].fallback = "armed"
  /\ dash' = [dash EXCEPT !.runs[r].fallback = "fired", !.ui = showConnected,
                          !.view = Display(showConnected)]
  /\ UNCHANGED <<verVars, cop, store, netVars, chat>>

\* The window control of run r reports an error of the frame (1206-1209).
onError(r) ==
  /\ r \in DOMAIN dash.runs
  /\ dash.runs[r].pc \in {"navigate", "waitLoad"}
  /\ dash.ui # showError
  /\ dash' = [dash EXCEPT !.ui = showError, !.view = Display(showError)]
  /\ UNCHANGED <<verVars, cop, store, netVars, chat>>

\* --- CopilotApp with every run of initialize() (part_001 lines 195-297) ------
\*
\* window.reconnect (line 202) and saveApiKey (lines 812-816) call
\* initialize() whatever the app is doing, so the runs and the transports
\* they create are kept apart here: cop.runs[i] is the i-th call,
\* cop.insts[k] the k-th InnerFrameTransport.

\* Calls of initialize(), and saves of a key that call disconnect().
MaxInits == 2

MaxSaves == 1

\* initialize() as called: it waits in its 500 ms delay (line 211).
NewRun(cause) ==
  [pc |-> "delay", cause |-> cause, t |-> 0, born |-> cop.clears, late |-> FALSE]

\* initialize() called (lines 206-211): by the DOMContentLoaded handler
\* once (line 870), by window.reconnect at any time after the constructor
\* (line 202), by the timer saveApiKey sets once its disconnect() has
\* resolved (lines 812-816).
initialize(cause) ==
  /\ Len(cop.runs) < MaxInits
  /\ \/ /\ cause = "load"
        /\ cop.runs = <<>>
        /\ cop' = [cop EXCEPT !.runs = Append(@, NewRun(cause))]
     \/ /\ cause = "reconnect"
        /\ cop.runs # <<>>
        /\ cop' = [cop EXCEPT !.runs = Append(@, NewRun(cause))]
     \/ /\ cause = "saveApiKey"
        /\ \E j \in DOMAIN cop.discs :
             /\ cop.discs[j].pc = "timer"
             /\ cop' = [cop EXCEPT !.discs[j].pc = "done",
                                   !.runs = Append(@, NewRun(cause))]
  /\ UNCHANGED <<verVars, netVars, dash, chat, store>>

\* Run i after its delay, lines 213-256: this.transport is set to a new
\* transport, whatever it held; prepareToConnect() attaches the listener;
\* this.client is set to a new client and client.connect(this.transport)
\* awaited. The run notes whether disconnect() has cleared the fields since
\* it was called.
InitializeConnect(i) ==
  /\ i \in DOMAIN cop.runs
  /\ cop.runs[i].pc = "delay"
  /\ LET k == Len(cop.insts) + 1
     IN  cop' = [cop EXCEPT
                   !.insts = Append(@, prepareToConnect(Transport(V10, V10, NoSid))),
                   !.transport = k,
                   !.client = i,
                   !.runs[i] = [@ EXCEPT !.pc = "connecting", !.t = k,
                                         !.late = cop.runs[i].born < cop.clears]]
  /\ UNCHANGED <<verVars, netVars, dash, chat, store>>

\* Run i, line 256 resolving and lines 258-276.
InitializeDone(i) ==
  /\ i \in DOMAIN cop.runs
  /\ cop.runs[i].pc = "connecting"
  /\ cop.insts[cop.runs[i].t].state = "connected"
  /\ cop' = [cop EXCEPT !.runs[i].pc = "done"]
  /\ UNCHANGED <<verVars, netVars, dash, chat, store>>

\* Run i, line 256 rejecting and the catch of lines 277-296: this.transport
\* and this.client are set to null, whatever they hold, and no close() is
\* called.
InitializeCatch(i) ==
  /\ i \in DOMAIN cop.runs
  /\ cop.runs[i].pc = "connecting"
  /\ cop.insts[cop.runs[i].t].state \in {"failed", "closing", "closed"}
  /\ cop' = [cop EXCEPT !.transport = 0, !.client = 0, !.runs[i].pc = "failed"]
  /\ UNCHANGED <<verVars, netVars, dash, chat, store>>

\* The parent's handshake reaches transport k, which listens for it.
InstHandshake(k) ==
  /\ k \in DOMAIN cop.insts
  /\ cop.insts[k].state = "preparing"
  /\ cop' = [cop EXCEPT !.insts[k] = [@ EXCEPT !.state = "connected",
                                               !.sessionId = OuterSid,
                                               !.negotiated = V10]]
  /\ UNCHANGED <<verVars, netVars, dash, chat, store>>

\* The handshake timer of transport k fires.
InstTimeout(k) ==
  /\ k \in DOMAIN cop.insts
  /\ cop.insts[k].state = "preparing"
  /\ cop' = [cop EXCEPT !.insts[k] = fail(@, "HandshakeTimeout")]
  /\ UNCHANGED <<verVars, netVars, dash, chat, store>>

\* close() of transport k resolves.
InstCloseDone(k) ==
  /\ k \in DOMAIN cop.insts
  /\ cop.insts[k].state = "closing"
  /\ cop' = [cop EXCEPT !.insts[k] = closed(@)]
  /\ UNCHANGED <<verVars, netVars, dash, chat, store>>

\* saveApiKey with a key (lines 801-812) calls disconnect(), lines 755-756
\* and, without a transport, 759-760; copilotApp is assigned before the
\* first initialize() (line 869).
saveKeyDisconnect ==
  /\ cop.runs # <<>>
  /\ Len(cop.discs) < MaxSaves
  /\ IF cop.transport # 0
     THEN cop' = [cop EXCEPT
                    !.insts[cop.transport] = close(@),
                    !.discs = Append(@, [pc |-> IF NeedsTeardown(cop.insts[cop.transport])
                                                THEN "awaitClose" ELSE "awaitNoop",
                                         t |-> cop.transport])]
     ELSE cop' = [cop EXCEPT !.client = 0, !.clears = @ + 1,
                             !.discs = Append(@, [pc |-> "timer", t |-> 0])]
  /\ UNCHANGED <<verVars, netVars, dash, chat, store>>

\* That disconnect() once its close() has resolved, lines 757-760:
\* this.transport and this.client are set to null, whatever they hold now;
\* then saveApiKey sets its timer of 1000 ms (line 813).
saveKeyDisconnectDone(j) ==
  /\ j \in DOMAIN cop.discs
  /\ \/ cop.discs[j].pc = "awaitClose" /\ cop.insts[cop.discs[j].t].state = "closed"
     \/ cop.discs[j].pc = "awaitNoop"
  /\ cop' = [cop EXCEPT !.transport = 0, !.client = 0, !.clears = @ + 1,
                        !.discs[j].pc = "timer"]
  /\ UNCHANGED <<verVars, netVars, dash, chat, store>>

\* --- the outer page's store and its tools (patient-dashboard.ts) ------------

\* Tool calls made.
MaxResults == 3

\* Arguments within the ranges of the input schemas (lines 629-638, 680-684):
\* systolic and diastolic, and the blood sugar value.
Readings == { <<120, 80>>, <<130, 85>> }

Sugars == { <<95>>, <<110>> }

ToolArgs(toolName) == IF toolName = updateBloodPressure THEN Readings ELSE Sugars

\* The texts a handler returns.
UpdatedSuccessfully == "Updated Successfully"

ErrorUpdating == "Error updating"

\* The page's function updateBloodPressure, lines 86-98: without the
\* element "last-bp" it does nothing.
setBloodPressure(s, args) ==
  IF s.lastBp THEN [s EXCEPT !.patientData.bloodPressure = args] ELSE s

\* The page's function updateBloodSugar, lines 101-113.
setBloodSugar(s, args) ==
  IF s.lastSugar THEN [s EXCEPT !.patientData.bloodSugar = args[1]] ELSE s

\* getContext, lines 334-343: a copy of patientData (the two time stamps
\* are left out).
getContext(s) == s.patientData

\* callDashboardFunction, lines 544-560, and the two service methods of
\* lines 562-568: the page's function is called, or an error thrown
\* without window.patientDashboard.
callDashboardFunction(s, functionName, args) ==
  IF s.patientDashboard
  THEN [threw |-> FALSE,
        s |-> IF functionName = updateBloodPressure THEN setBloodPressure(s, args)
              ELSE setBloodSugar(s, args)]
  ELSE [threw |-> TRUE, s |-> s]

\* The handlers of the tools updateBloodPressure and updateBloodSugar,
\* lines 641-669 and 687-717: the success text unless the service threw.
ToolUpdate(toolName) ==
  /\ Len(store.results) < MaxResults
  /\ \E args \in ToolArgs(toolName) :
       LET c == callDashboardFunction(store, toolName, args)
       IN  store' = [c.s EXCEPT !.results =
                       Append(@, [tool |-> toolName, args |-> args,
                                  text |-> IF c.threw THEN ErrorUpdating
                                           ELSE UpdatedSuccessfully,
                                  before |-> store.patientData,
                                  data |-> c.s.patientData])]
  /\ UNCHANGED <<verVars, netVars, dash, chat, cop>>

\* The handler of the tool getContext, lines 965-1010: the text written
\* from the context.
ToolGetContext ==
  /\ Len(store.results) < MaxResults
  /\ store' = [store EXCEPT !.results =
                 Append(@, [tool |-> getContextTool, args |-> <<>>,
                            text |-> "Complete Patient Context",
                            before |-> store.patientData,
                            data |-> getContext(store)])]
  /\ UNCHANGED <<verVars, netVars, dash, chat, cop>>

\* --- specifications -------------------------------------------------------

VerIdle == vop = "none" /\ vargs = <<>> /\ vres = Unset

Init == VerIdle /\ InitNet

\* The two pages and their transports, every message coming from the peer.
Next ==
  \/ Prepare("outer")
  \/ Start
  \/ Close("outer")
  \/ \E t \in Sides : CloseDone(t)
  \/ \E t \in Sides : HandshakeTimeout(t)
  \/ ControlFault
  \/ \E t \in Sides : Deliver(t)
  \/ \E id \in CorrIds : RpcTimeout(id)
  \/ \E id \in CorrIds : Respond(id)
  \/ InitCreate
  \/ InitPrepare
  \/ InitConnected
  \/ InitFailed
  \/ callTool(updateBloodPressure)
  \/ \E d \in DOMAIN disc : disconnect(d)
  \/ \E d \in DOMAIN disc : disconnectDone(d)

Spec == Init /\ [][Next]_vars

\* The lifecycle with third-party messages, without tool calls.
NextLife ==
  \/ Prepare("outer")
  \/ Start
  \/ Close("outer")
  \/ \E t \in Sides : CloseDone(t)
  \/ \E t \in Sides : HandshakeTimeout(t)
  \/ ControlFault
  \/ \E t \in Sides : Deliver(t)
  \/ \E t \in Sides : \E e \in Forged(t) : Intrude(t, e)
  \/ InitCreate
  \/ InitPrepare
  \/ InitConnected
  \/ InitFailed
  \/ \E d \in DOMAIN disc : disconnect(d)
  \/ \E d \in DOMAIN disc : disconnectDone(d)

SpecLife == Init /\ [][NextLife]_vars

\* The outer page's one prepareToConnect() call.
PrepareOnce == tr["outer"].state = "idle" /\ Prepare("outer")

\* Tool calls with third-party messages: the outer page prepares once and
\* keeps its transport, the inner page disconnects when it unloads.
NextAdv ==
  \/ PrepareOnce
  \/ Start
  \/ \E t \in Sides : CloseDone(t)
  \/ \E t \in Sides : HandshakeTimeout(t)
  \/ \E t \in Sides : Deliver(t)
  \/ \E id \in CorrIds : Respond(id)
  \/ \E t \in Sides : \E e \in Forged(t) : Intrude(t, e)
  \/ InitCreate
  \/ InitPrepare
  \/ InitConnected
  \/ InitFailed
  \/ callTool(updateBloodPressure)
  \/ disconnect("beforeunload")
  \/ disconnectDone("beforeunload")

SpecAdv == Init /\ [][NextAdv]_vars

\* The handshake and tool calls with handshake envelopes delivered again.
AllHandshakes ==
  { Envelope(OuterSid, k, b, OriginOf(t)) :
      k \in {"handshake-init", "handshake-ack"},
      b \in { RangeBody(V10, V10), RangeBody(V20, V20) },
      t \in Sides }

NextReplay ==
  \/ PrepareOnce
  \/ Start
  \/ \E t \in Sides : CloseDone(t)
  \/ \E t \in Sides : HandshakeTimeout(t)
  \/ \E t \in Sides : Deliver(t)
  \/ \E id \in CorrIds : Respond(id)
  \/ \E t \in Sides : \E e \in AllHandshakes : Replay(t, e)
  \/ InitCreate
  \/ InitPrepare
  \/ InitConnected
  \/ InitFailed
  \/ callTool(updateBloodPressure)
  \/ disconnect("beforeunload")
  \/ disconnectDone("beforeunload")

SpecReplay == Init /\ [][NextReplay]_vars

\* Tool calls by name at any time of the inner page's life: before it has a
\* client, while connected, after a failed initialize() and after
\* disconnect(); requests are answered, time out or are failed by close().
NextTool ==
  \/ PrepareOnce
  \/ Start
  \/ \E t \in Sides : CloseDone(t)
  \/ \E t \in Sides : HandshakeTimeout(t)
  \/ \E t \in Sides : Deliver(t)
  \/ \E id \in CorrIds : Respond(id)
  \/ \E id \in CorrIds : RpcTimeout(id)
  \/ InitCreate
  \/ InitPrepare
  \/ InitConnected
  \/ InitFailed
  \/ \E toolName \in ToolNames : callTool(toolName)
  \/ disconnect("beforeunload")
  \/ disconnectDone("beforeunload")

SpecTool == Init /\ [][NextTool]_vars

\* The end-to-end scenarios of spec.md section 8: both pages run to the
\* handshake, nobody closes, every message comes from the peer. The outer
\* page hands its transport to the server a settle delay of 1000 ms after
\* the frame's load event (patient-dashboard.ts lines 1247-1268), the inner
\* page prepares 500 ms after its DOMContentLoaded (part_001 lines 211-245):
\* the inner transport listens when the handshake-init is posted. A timer
\* fires only once nothing else can happen (timeouts are long against a
\* message delivery).
StartE2E == tr["inner"].listeners > 0 /\ Start

Stalled ==
  /\ \A t \in Sides : chan[t] = <<>>
  /\ tr["outer"].state \notin {"idle", "preparing"}

TimeoutE2E == Stalled /\ \E t \in Sides : HandshakeTimeout(t)

NextE2E ==
  \/ Prepare("outer")
  \/ StartE2E
  \/ \E t \in Sides : Deliver(t)
  \/ \E id \in CorrIds : Respond(id)
  \/ TimeoutE2E
  \/ InitCreate
  \/ InitPrepare
  \/ InitConnected
  \/ InitFailed
  \/ callTool(updateBloodPressure)

\* The pages' event loops keep dispatching: a step that can happen does.
\* No run of NextE2E is infinite, so this fairness drives every run to its end.
SpecE2E == Init /\ [][NextE2E]_vars /\ WF_vars(NextE2E)

\* The outer page's initializeCopilot runs beside the inner page's
\* initialize(), with a peer transport that never starts its handshake
\* (the end-to-end scenarios above are the runs in which it does).
InitDash == VerIdle /\ NetInit(<<V10, V10>>, {"*"})

NextDash ==
  \/ initializeCopilot
  \/ FrameLoad
  \/ \E r \in 1..MaxRuns : AwaitResolved(r)
  \/ \E r \in 1..MaxRuns : AwaitRejected(r)
  \/ \E r \in 1..MaxRuns : RaceTimeout(r)
  \/ \E r \in 1..MaxRuns : FallbackFire(r)
  \/ \E r \in 1..MaxRuns : onError(r)
  \/ HandshakeTimeout("inner")
  \/ InitCreate
  \/ InitPrepare
  \/ InitFailed

SpecDash == InitDash /\ [][NextDash]_vars

\* The outer page's first initializeCopilot().
FirstRun == dash.runs = <<>> /\ initializeCopilot

\* The outer page's run calls prepareToConnect() (line 1264) and
\* server.connect(transport) (line 1268) on its transport.
RunPrepare ==
  /\ \E r \in DOMAIN dash.runs : "prepareCalled" \in dash.runs[r].did
  /\ PrepareOnce

RunStart ==
  /\ \E r \in DOMAIN dash.runs : "connectCalled" \in dash.runs[r].did
  /\ Start

\* The first attempt from the outer page's DOMContentLoaded on: the frame is
\* navigated, the inner page loads and posts its ready signal, both pages
\* initialize and the transports run their handshake, with compatible or
\* incompatible ranges.
InitReady == VerIdle /\ \E r \in OuterRanges : NetInitFrom(r, {"*"}, "unloaded")

NextReady ==
  \/ FirstRun
  \/ DOMContentLoaded
  \/ FrameLoad
  \/ \E r \in 1..MaxRuns : AwaitResolved(r)
  \/ \E r \in 1..MaxRuns : AwaitRejected(r)
  \/ \E r \in 1..MaxRuns : RaceTimeout(r)
  \/ \E r \in 1..MaxRuns : FallbackFire(r)
  \/ \E r \in 1..MaxRuns : onError(r)
  \/ RunPrepare
  \/ RunStart
  \/ \E t \in Sides : HandshakeTimeout(t)
  \/ \E t \in Sides : Deliver(t)
  \/ InitCreate
  \/ InitPrepare
  \/ InitConnected
  \/ InitFailed

SpecReady == InitReady /\ [][NextReady]_vars

\* Timers fire and the inner page's own steps run; the frame need not load
\* and no await of the outer page need settle.
SpecBound ==
  /\ InitDash
  /\ [][NextDash]_vars
  /\ \A r \in 1..MaxRuns : WF_vars(RaceTimeout(r))
  /\ \A r \in 1..MaxRuns : WF_vars(FallbackFire(r))
  /\ WF_vars(HandshakeTimeout("inner"))
  /\ WF_vars(InitCreate)
  /\ WF_vars(InitPrepare)
  /\ WF_vars(InitFailed)

\* The inner page with its settings panel and the user's messages; the
\* outer page prepares and starts its transport once.
NextChat ==
  \/ PrepareOnce
  \/ Start
  \/ \E t \in Sides : Deliver(t)
  \/ InitCreate
  \/ InitPrepare
  \/ InitConnected
  \/ InitFailed
  \/ HandshakeTimeout("inner")
  \/ CloseDone("inner")
  \/ \E k \in BOOLEAN : saveApiKey(k)
  \/ SaveDisconnect
  \/ disconnectDone("saveApiKey")
  \/ Reinitialize
  \/ \E first \in {"text", "function_call", "fail"} :
       \E format \in {"ok", "fail"} :
         \E intent \in BOOLEAN : UserMessage(first, format, intent)

SpecChat == InitDash /\ [][NextChat]_vars

\* CopilotApp with its reconnect button and its settings panel; the parent
\* answers a listening transport or lets it time out.
NextApp ==
  \/ \E cause \in {"load", "reconnect", "saveApiKey"} : initialize(cause)
  \/ \E i \in 1..MaxInits : InitializeConnect(i)
  \/ \E i \in 1..MaxInits : InitializeDone(i)
  \/ \E i \in 1..MaxInits : InitializeCatch(i)
  \/ \E k \in 1..MaxInits : InstHandshake(k)
  \/ \E k \in 1..MaxInits : InstTimeout(k)
  \/ \E k \in 1..MaxInits : InstCloseDone(k)
  \/ saveKeyDisconnect
  \/ \E j \in 1..MaxSaves : saveKeyDisconnectDone(j)

SpecApp == InitDash /\ [][NextApp]_vars

\* The outer page's tools called one after the other, on a page with or
\* without the two elements.
InitStore ==
  /\ VerIdle
  /\ \E bp \in BOOLEAN : \E sugar \in BOOLEAN :
       NetInitPage(<<V10, V10>>, {"*"}, "start", bp, sugar)

NextStore ==
  \/ \E toolName \in {updateBloodPressure, updateBloodSugar} : ToolUpdate(toolName)
  \/ ToolGetContext

SpecStore == InitStore /\ [][NextStore]_vars

\* The version negotiator alone: Init draws the call, the actions make it.
NetQuiet == NetInit(<<V10, V10>>, {"*"})

InitVer ==
  /\ \/ vop = "negotiate" /\ vargs \in Inputs \X Inputs \X Inputs \X Inputs
     \/ vop = "inRange" /\ vargs \in Inputs \X Inputs \X Inputs
     \/ vop = "compare" /\ vargs \in Versions \X Versions
  /\ vres = Unset
  /\ NetQuiet

Negotiate ==
  /\ vop = "negotiate"
  /\ ~vres.done
  /\ vres' = Returned(negotiateVersion(vargs[1], vargs[2], vargs[3], vargs[4]), FALSE)
  /\ UNCHANGED <<vop, vargs, netVars, pageVars>>

CheckRange ==
  /\ vop = "inRange"
  /\ ~vres.done
  /\ vres' = Returned(<<>>, isVersionInRange(vargs[1], vargs[2], vargs[3]))
  /\ UNCHANGED <<vop, vargs, netVars, pageVars>>

\* The comparator both functions define (lines 22-34 and 69-81), applied to
\* the parsed arguments in both orders and to the first against itself.
Compare ==
  /\ vop = "compare"
  /\ ~vres.done
  /\ vres' = Returned(<<compareVersions(parseVersion(vargs[1]), parseVersion(vargs[2])),
                        compareVersions(parseVersion(vargs[2]), parseVersion(vargs[1])),
                        compareVersions(parseVersion(vargs[1]), parseVersion(vargs[1]))>>,
                      FALSE)
  /\ UNCHANGED <<vop, vargs, netVars, pageVars>>

NextVer == Negotiate \/ CheckRange \/ Compare

SpecVer == InitVer /\ [][NextVer]_vars

\* The two functions on the small set of strings.
InitPad ==
  /\ \/ vop = "negotiate" /\ vargs \in PadVersions \X PadVersions \X PadVersions \X PadVersions
     \/ vop = "inRange" /\ vargs \in PadVersions \X PadVersions \X PadVersions
  /\ vres = Unset
  /\ NetQuiet

NextPad == Negotiate \/ CheckRange

SpecPad == InitPad /\ [][NextPad]_vars

\* ------------------------------------------------------------------------
\* Properties
\* ------------------------------------------------------------------------

\* The order on versions the specification describes, on tuples of numbers:
\* component by component from the left, a missing component counting as 0.
RefPart(x, i) == IF i \in DOMAIN x THEN x[i] ELSE 0

RefLess(x, y) ==
  \E i \in 1..(Len(x) + Len(y)) :
    /\ RefPart(x, i) < RefPart(y, i)
    /\ \A j \in 1..(i - 1) : RefPart(x, j) = RefPart(y, j)

RefLeq(x, y) == ~RefLess(y, x)

\* The tuple a well-formed version string was written from.
TupleOf(s) == CHOOSE x \in Tuples : Dotted(x) = s

V11 == <<"1", ".", "1">>

V12 == <<"1", ".", "2">>

V15 == <<"1", ".", "5">>

V21 == <<"2", ".", "1">>

V30 == <<"3", ".", "0">>

V09 == <<"0", ".", "9">>

\* C1: for well-formed version ranges negotiateVersion returns the smaller of
\* the two max versions when max(clientMin, serverMin) <= min(clientMax,
\* serverMax) in the version order, and null otherwise; ("1.0","2.0","1.5",
\* "3.0") gives "2.0" and ("1.0","1.1","2.0","2.1") gives null.
C1_NegotiateOverlapMax ==
  (vop = "negotiate" /\ vres.done) =>
    /\ (\A i \in 1..4 : vargs[i] \in WellFormed) =>
         LET cmin == TupleOf(vargs[1])
             cmax == TupleOf(vargs[2])
             smin == TupleOf(vargs[3])
             smax == TupleOf(vargs[4])
             lo == IF RefLess(cmin, smin) THEN smin ELSE cmin
             hi == IF RefLess(smax, cmax) THEN smax ELSE cmax
         IN  IF RefLeq(lo, hi)
             THEN /\ vres.v \in {vargs[2], vargs[4]}
                  /\ RefLeq(TupleOf(vres.v), cmax)
                  /\ RefLeq(TupleOf(vres.v), smax)
             ELSE vres.v = Null
    /\ vargs = <<V10, V20, V15, V30>> => vres.v = V20
    /\ vargs = <<V10, V11, V20, V21>> => vres.v = Null

C1_Witness ==
  vop = "negotiate" /\ vres.done /\ vargs = <<V10, V20, V15, V30>> /\ vres.v = V20

\* C2: isVersionInRange(version, min, max) is true exactly when min <= version
\* and version <= max in the version order, both bounds included.
C2_InRangeInclusive ==
  (vop = "inRange" /\ vres.done) =>
    /\ (\A i \in 1..3 : vargs[i] \in WellFormed) =>
         (vres.b <=> /\ RefLeq(TupleOf(vargs[2]), TupleOf(vargs[1]))
                     /\ RefLeq(TupleOf(vargs[1]), TupleOf(vargs[3])))
    /\ vargs = <<V12, V10, V20>> => vres.b
    /\ vargs = <<V09, V10, V20>> => ~vres.b
    /\ vargs = <<V20, V10, V20>> => vres.b
    /\ vargs = <<V10, V10, V20>> => vres.b

C2_Witness ==
  vop = "inRange" /\ vres.done /\ vargs = <<V20, V10, V20>> /\ vres.b

\* Both ranges are 1.0-1.0, or the outer one is 2.0-2.0.
Compatible == tr["outer"].min = V10 /\ tr["outer"].max = V10

Incompatible == tr["outer"].min = V20 /\ tr["outer"].max = V20

BothConnected ==
  \A t \in Sides :
    /\ tr[t].state = "connected"
    /\ tr[t].negotiated = V10
    /\ tr[t].sessionId = OuterSid

Awaiting(c) == c \in DOMAIN calls /\ calls[c].st = "awaiting"

Answered(c) ==
  /\ c \in DOMAIN calls
  /\ calls[c].st = "result"
  /\ settled[calls[c].id] = <<"response">>

\* C3: with ranges 1.0-1.0 on both sides the handshake completes with the
\* negotiated version "1.0": both transports become connected, no handshake
\* timer fires first (no transport ever fails), and a request issued once
\* connected gets its response.
C3_CompatibleHandshake ==
  /\ [](Compatible => \A t \in Sides : tr[t].state # "failed")
  /\ (Compatible => <>[]BothConnected)
  /\ \A c \in 1..MaxCalls : [](Compatible /\ Awaiting(c) => <>Answered(c))

C3_Witness ==
  /\ Compatible
  /\ BothConnected
  /\ \E c \in DOMAIN calls : calls[c].st = "result"

\* C4: with the outer range 2.0-2.0 and the inner range 1.0-1.0 no transport
\* is ever connected and no version is ever negotiated, and the outer
\* transport ends failed with VersionIncompatible.
C4_IncompatibleHandshake ==
  Incompatible =>
    /\ [](\A t \in Sides : tr[t].state # "connected" /\ tr[t].negotiated = NoVersion)
    /\ <>[](tr["outer"].state = "failed" /\ tr["outer"].err = "VersionIncompatible")

C4_Witness ==
  /\ Incompatible
  /\ tr["outer"].state = "failed"
  /\ tr["outer"].err = "VersionIncompatible"
  /\ tr["inner"].state = "failed"

\* C5: a transport's state only moves forward along idle, preparing,
\* handshaking, connected, closing, closed (close() may be called in any of
\* them), or to failed from a state that is not closed; a failed transport
\* only leaves failed by close(); closed is terminal.
Forward ==
  { <<"idle", "preparing">>, <<"preparing", "handshaking">>,
    <<"handshaking", "connected">>, <<"connected", "closing">>,
    <<"closing", "closed">> }

C5_Step(a, b) ==
  \/ a = b
  \/ <<a, b>> \in Forward
  \/ b = "closing" /\ a \in {"idle", "preparing", "handshaking", "failed"}
  \/ b = "failed" /\ a \notin {"closed", "failed"}

C5_StateMachine ==
  [][\A t \in Sides : C5_Step(tr[t].state, tr'[t].state)]_vars

C5_Witness ==
  \E t \in Sides : tr[t].state = "closed" /\ tr[t].err = "HandshakeTimeout"

\* C6: however often close() is called on a transport, also while an earlier
\* close() has not resolved, the teardown runs at most once: the listener is
\* detached once and no pending entry is failed twice.
C6_CloseIdempotent ==
  /\ \A t \in Sides : tr[t].teardowns <= 1 /\ tr[t].listeners >= 0
  /\ \A id \in CorrIds :
       Cardinality({ k \in DOMAIN settled[id] : settled[id][k] = "TransportClosed" }) <= 1

C6_Witness ==
  /\ \A d \in DOMAIN disc : disc[d] \in {"awaitClose", "awaitNoop"}
  /\ tr["inner"].state = "closing"
  /\ tr["inner"].teardowns = 1
  /\ \E id \in CorrIds : settled[id] = <<"TransportClosed">>

\* C7: once close() of the inner transport has completed no request is
\* pending and no callTool is still waiting: every request issued has been
\* settled, the ones pending at close() with TransportClosed.
C7_NoCallerSuspended ==
  tr["inner"].state \in {"closing", "closed"} =>
    /\ \A id \in CorrIds : pending[id] = 0
    /\ \A id \in CorrIds : id < nextId => Len(settled[id]) >= 1
    /\ \A c \in DOMAIN calls : calls[c].st # "awaiting"

C7_Witness ==
  /\ tr["inner"].state = "closed"
  /\ \E c \in DOMAIN calls :
       /\ calls[c].st = "mock"
       /\ calls[c].id \in CorrIds
       /\ settled[calls[c].id] = <<"TransportClosed">>

\* C8: a message event whose origin is not allowed, whose payload is no
\* envelope, or whose session id is not the one of the connected transport
\* it reaches is dropped: the transports, the pending table, the callers,
\* what the layer above received and the peer's queue stay as they were,
\* and the message is not queued again.
BadOrigin(t, e) ==
  IF t = "inner" THEN "*" \notin allow /\ e.origin \notin allow
  ELSE e.origin # OriginOf("inner")

ForeignSession(t, e) == tr[t].state = "connected" /\ e.sessionId # tr[t].sessionId

ToReject(t, e) == BadOrigin(t, e) \/ e.kind \notin Kinds \/ ForeignSession(t, e)

Untouched ==
  /\ tr' = tr
  /\ pending' = pending
  /\ settled' = settled
  /\ calls' = calls
  /\ up' = up
  /\ toServe' = toServe
  /\ nextId' = nextId

C8_RejectedDropped ==
  [][\A t \in Sides :
       /\ \A e \in Forged(t) :
            (Intrude(t, e) /\ ToReject(t, e)) => (Untouched /\ chan' = chan)
       /\ (chan[t] # <<>> /\ ToReject(t, Head(chan[t])) /\ Deliver(t)) =>
            (Untouched /\ chan' = [chan EXCEPT ![t] = Tail(@)])]_vars

C8_Witness ==
  /\ tr["inner"].state = "connected"
  /\ tr["inner"].sessionId = OuterSid
  /\ rejected["inner"] > 0
  /\ pending[1] = 1

\* C9: the pending table never holds two entries for one correlation id,
\* and an entry is removed once: by its response, by close() or by its
\* timeout, and by one of them only.
C9_OneEntryRemovedOnce ==
  \A id \in CorrIds :
    /\ pending[id] <= 1
    /\ Len(settled[id]) <= 1
    /\ pending[id] + Len(settled[id]) = (IF id < nextId THEN 1 ELSE 0)

C9_Witness ==
  /\ settled[1] = <<"response">>
  /\ settled[2] = <<"TransportClosed">>

\* C10: whatever the number of prepareToConnect() calls, a transport that is
\* preparing, handshaking or connected has exactly one message listener
\* attached, and one that is closing or closed (or never prepared) has none.
C10_OneListener ==
  \A t \in Sides :
    /\ tr[t].state \in {"preparing", "handshaking", "connected"} => tr[t].listeners = 1
    /\ tr[t].state \in {"idle", "closing", "closed"} => tr[t].listeners = 0
    /\ tr[t].listeners \in {0, 1}

C10_Witness ==
  /\ noops > 0
  /\ tr["outer"].state = "preparing"
  /\ tr["outer"].listeners = 1

\* C13: the comparator is antisymmetric and reflexive: for all version
\* strings v1, v2, compare(v1, v2) = -compare(v2, v1), compare(v1, v1) = 0,
\* and the result is -1, 0 or 1.
C13_ComparatorAntisymmetric ==
  (vop = "compare" /\ vres.done) =>
    /\ vres.v[1] \in {-1, 0, 1}
    /\ vres.v[1] = 0 - vres.v[2]
    /\ vres.v[3] = 0

C13_Witness ==
  vop = "compare" /\ vres.done /\ vargs = <<V10, V20>> /\ vres.v = <<-1, 1, 0>>

\* The arguments with ".0" appended to those whose index is in S.
Padded(args, S) ==
  [i \in DOMAIN args |-> IF i \in S THEN AppendZero(args[i]) ELSE args[i]]

\* C14: a missing component counts as 0: "1" is in the range "1.0"-"1.0",
\* and appending ".0" to any of the arguments changes neither the result of
\* isVersionInRange nor whether negotiateVersion finds a version.
C14_PaddedEqual ==
  vres.done =>
    /\ vop = "inRange" =>
         \A S \in SUBSET (1..3) :
           LET a == Padded(vargs, S)
           IN  isVersionInRange(a[1], a[2], a[3]) = vres.b
    /\ vop = "negotiate" =>
         \A S \in SUBSET (1..4) :
           LET a == Padded(vargs, S)
           IN  (negotiateVersion(a[1], a[2], a[3], a[4]) = Null) <=> (vres.v = Null)
    /\ (vop = "inRange" /\ vargs = << <<"1">>, V10, V10 >>) => vres.b

C14_Witness ==
  vop = "inRange" /\ vres.done /\ vargs = << <<"1">>, V10, V10 >> /\ vres.b

\* A component that is a non-negative decimal integer, and the string with
\* every other component replaced by 0.
IsDecimal(part) == Len(part) > 0 /\ \A i \in 1..Len(part) : IsDigit(part[i])

RECURSIVE JoinParts(_, _)
JoinParts(parts, i) ==
  IF i > Len(parts) THEN <<>>
  ELSE IF i = Len(parts) THEN parts[i]
  ELSE parts[i] \o <<".">> \o JoinParts(parts, i + 1)

ZeroInvalid(s) ==
  LET parts == Split(s)
  IN  JoinParts([i \in 1..Len(parts) |-> IF IsDecimal(parts[i]) THEN parts[i] ELSE <<"0">>], 1)

\* C15: a version string with components that are no non-negative decimal
\* integers gives, in isVersionInRange and in negotiateVersion, the result
\* of the string with each such component replaced by 0.
C15_InvalidAsZero ==
  vres.done =>
    /\ vop = "inRange" =>
         isVersionInRange(ZeroInvalid(vargs[1]), ZeroInvalid(vargs[2]),
                          ZeroInvalid(vargs[3])) = vres.b
    /\ vop = "negotiate" =>
         negotiateVersion(ZeroInvalid(vargs[1]), ZeroInvalid(vargs[2]),
                          ZeroInvalid(vargs[3]), ZeroInvalid(vargs[4])) = vres.v

\* A dotted rendering of numbers.
IsVersionString(v) ==
  /\ Len(v) > 0
  /\ \A i \in 1..Len(v) : IsDigit(v[i]) \/ v[i] = "." \/ v[i] = "-"

\* C16: negotiateVersion returns a version string or null and
\* isVersionInRange a boolean for all arguments, well-formed or not; an
\* argument on which parsing throws gives null, respectively false, and
\* nothing is thrown to the caller.
C16_NeverThrows ==
  vres.done =>
    /\ vop = "negotiate" =>
         /\ vres.v = Null \/ IsVersionString(vres.v)
         /\ (\E i \in 1..4 : vargs[i] = Undefined) => vres.v = Null
    /\ vop = "inRange" =>
         /\ vres.b \in BOOLEAN
         /\ (\E i \in 1..3 : vargs[i] = Undefined) => ~vres.b

C16_Witness ==
  /\ vop = "negotiate"
  /\ vres.done
  /\ vargs = <<Undefined, V10, V10, V10>>
  /\ vres.v = Null

\* C11: delivering a handshake envelope of the session again, at any time,
\* gives the session and version of a single delivery: a connected transport
\* has the outer's session id and version 1.0, a session id or negotiated
\* version once set is not changed by the copy, and a copy reaching a
\* connected transport changes nothing and is answered by nothing.
C11_HandshakeReplay ==
  /\ [](\A t \in Sides :
         /\ tr[t].state = "connected" =>
              tr[t].sessionId = OuterSid /\ tr[t].negotiated = V10
         /\ tr[t].sessionId \in {OuterSid, NoSid})
  /\ [][\A t \in Sides : \A e \in SentHandshakes(t) :
          Replay(t, e) =>
            /\ tr[t].sessionId # NoSid => tr'[t].sessionId = tr[t].sessionId
            /\ tr[t].negotiated # NoVersion => tr'[t].negotiated = tr[t].negotiated
            /\ tr[t].state = "connected" => (Untouched /\ chan' = chan)]_vars

C11_Witness ==
  /\ injected = MaxReplay
  /\ \A t \in Sides : tr[t].state = "connected" /\ tr[t].negotiated = V10
  /\ \E c \in DOMAIN calls : calls[c].st = "result"

\* C12: the transports of the initializeCopilot runs have pairwise different
\* session ids: no attempt, a retry after an error included, reuses the id
\* of an earlier one.
C12_FreshSessionIds ==
  \A i \in DOMAIN dash.runs : \A j \in DOMAIN dash.runs :
    i # j => dash.runs[i].sid # dash.runs[j].sid

C12_Witness ==
  /\ Len(dash.runs) = 2
  /\ dash.runs[1].race = "rejected"
  /\ dash.runs[1].sid # dash.runs[2].sid

\* C17: of the fallback timer and the frame's load event the first wins and
\* cancels the other: a fallback timer the load handler has cleared never
\* fires, and once the fallback timer of every run has fired the load
\* handler leaves the status line alone.
C17_FirstSettledWins ==
  [][/\ \A r \in DOMAIN dash.runs :
          dash.runs[r].fallback = "cleared" => dash'.runs[r].fallback = "cleared"
     /\ (FrameLoad /\ \A r \in DOMAIN dash.runs : dash.runs[r].fallback = "fired")
          => dash'.ui = dash.ui]_vars

\* C18: every attempt leaves "Connecting...": the outer page's status line
\* does not stay at "Connecting..." and the inner page's initialize() ends,
\* connected or in its catch, also when the frame never loads and the peer
\* never answers.
C18_BoundedWaits ==
  /\ (dash.ui = showLoading) ~> (dash.ui \in {showConnected, showError})
  /\ <>(app.pc \in {"done", "failed"})

C18_Witness ==
  /\ Len(dash.runs) = 1
  /\ dash.runs[1].pc = "navigate"
  /\ dash.frame = "loading"
  /\ dash.ui = showError
  /\ app.pc = "failed"
  /\ tr["inner"].err = "HandshakeTimeout"
  /\ tr["outer"].state = "idle"

\* C19: in every run of the outer page server.connect(transport) is called
\* only after prepareToConnect() has resolved and prepareToConnect() only
\* after navigate() has resolved; the inner page has a client only for a
\* transport it has prepared.
C19_PreparedBeforeConnect ==
  /\ \A r \in DOMAIN dash.runs :
       /\ "connectCalled" \in dash.runs[r].did => "prepared" \in dash.runs[r].did
       /\ "prepareCalled" \in dash.runs[r].did => "navigated" \in dash.runs[r].did
       /\ "prepared" \in dash.runs[r].did => "prepareCalled" \in dash.runs[r].did
  /\ app.client => tr["inner"].state # "idle"

C19_Witness ==
  /\ \E r \in DOMAIN dash.runs :
       dash.runs[r].pc = "done" /\ {"navigated", "prepared", "connectCalled"} \subseteq dash.runs[r].did
  /\ app.client
  /\ app.pc = "connecting"
  /\ tr["inner"].state = "preparing"

\* C20: a message handled while no API key is configured makes no OpenAI
\* request, and a message whose OpenAI request fails is answered by the
\* rules.
C20_RuleBasedFallback ==
  \A i \in DOMAIN chat.msgs :
    /\ ~chat.msgs[i].key => ~chat.msgs[i].requested
    /\ chat.msgs[i].failed => chat.msgs[i].reply = "rules"

\* C25: a version negotiateVersion returns lies in both declared ranges:
\* isVersionInRange is true for it against the client's range and against
\* the server's.
C25_NegotiatedInBothRanges ==
  (vop = "negotiate" /\ vres.done /\ vres.v # Null) =>
    /\ isVersionInRange(vres.v, vargs[1], vargs[2])
    /\ isVersionInRange(vres.v, vargs[3], vargs[4])

C25_Witness ==
  /\ vop = "negotiate"
  /\ vres.done
  /\ vargs = <<V10, V30, V15, V20>>
  /\ vres.v = V20
  /\ isVersionInRange(vres.v, V10, V30)
  /\ isVersionInRange(vres.v, V15, V20)

\* C26: the two sides agree whatever their role: negotiateVersion with the
\* two ranges exchanged is null exactly when the result is, and otherwise
\* compares equal to it under the comparator.
C26_RoleSymmetric ==
  (vop = "negotiate" /\ vres.done) =>
    LET other == negotiateVersion(vargs[3], vargs[4], vargs[1], vargs[2])
    IN  /\ (other = Null) <=> (vres.v = Null)
        /\ vres.v # Null =>
             compareVersions(parseVersion(vres.v), parseVersion(other)) = 0

C26_Witness ==
  /\ vop = "negotiate"
  /\ vres.done
  /\ vargs = << <<"1">>, <<"2">>, V10, V20 >>
  /\ vres.v = <<"2">>
  /\ negotiateVersion(V10, V20, <<"1">>, <<"2">>) = V20

\* Is the range min-max empty under the comparator?
EmptyRange(min, max) ==
  IsString(min) /\ IsString(max)
  /\ compareVersions(parseVersion(min), parseVersion(max)) > 0

\* C27: when one of the declared ranges is empty (its min above its max)
\* negotiateVersion returns null, whatever the other range.
C27_EmptyRangeNull ==
  (vop = "negotiate" /\ vres.done
   /\ (EmptyRange(vargs[1], vargs[2]) \/ EmptyRange(vargs[3], vargs[4])))
    => vres.v = Null

C27_Witness ==
  /\ vop = "negotiate"
  /\ vres.done
  /\ vargs = <<V20, V10, V09, V30>>
  /\ EmptyRange(vargs[1], vargs[2])
  /\ ~EmptyRange(vargs[3], vargs[4])
  /\ vres.v = Null

\* C24: callTool never rejects: every call that has returned gave the
\* tool's text or the mock response written for its tool name; a call made
\* while there is no client returns the mock response at once and sends
\* nothing; a call whose request failed (no connection, timeout, transport
\* closed) returns that same mock response.
C24_CallToolNeverRejects ==
  /\ [](\A c \in DOMAIN calls :
         /\ calls[c].st \in {"awaiting", "result", "mock"}
         /\ calls[c].st = "result" => calls[c].reply = ToolText
         /\ calls[c].st = "mock" => calls[c].reply = getMockToolResponse(calls[c].tool)
         /\ (calls[c].id \in CorrIds /\ Len(settled[calls[c].id]) > 0
               /\ settled[calls[c].id] # <<"response">>) => calls[c].st = "mock")
  /\ [][\A toolName \in ToolNames :
          (callTool(toolName) /\ ~app.client) =>
            /\ chan' = chan
            /\ pending' = pending
            /\ nextId' = nextId
            /\ calls'[Len(calls')].st = "mock"
            /\ calls'[Len(calls')].reply = getMockToolResponse(toolName)]_vars

C24_Witness ==
  /\ Len(calls) = 2
  /\ calls[1].tool = getContextTool
  /\ calls[1].id = 1
  /\ settled[1] = <<"timeout">>
  /\ calls[1].reply = <<"mock", "Current Patient Information">>
  /\ calls[2].tool = getSystemHealth
  /\ calls[2].id = 0
  /\ calls[2].reply = <<"mock", "executed in mock mode", getSystemHealth>>
  /\ ~app.client
  /\ app.pc = "done"

\* C21: the ready signal does not depend on the handshake: the inner page
\* posts it when it loads, before it has constructed a transport or a
\* client and whatever ranges the handshake will find; the outer page's
\* handling of it displays the frame and changes neither the status line,
\* nor the initializeCopilot runs, nor a transport, its pending requests
\* or what the layer above received.
C21_ReadySignalApart ==
  [][/\ (app.pc = "unloaded" /\ app'.pc # "unloaded") =>
          /\ ~app.transport /\ ~app.client
          /\ tr["inner"].state = "idle" /\ tr["inner"].listeners = 0
          /\ chan'["outer"] = Append(chan["outer"], ReadySignal)
     /\ (chan["outer"] # <<>> /\ Head(chan["outer"]) = ReadySignal /\ Deliver("outer")) =>
          /\ dash'.ui = dash.ui
          /\ dash'.runs = dash.runs
          /\ dash'.frame = dash.frame
          /\ dash'.view.iframe = "block"
          /\ dash'.view.error = dash.view.error
          /\ Untouched]_vars

C21_Witness ==
  /\ dash.ui = showLoading
  /\ dash.view = [iframe |-> "block", loading |-> "none", error |-> "none"]
  /\ chan["outer"] = <<>>
  /\ app.pc = "start"
  /\ ~app.transport
  /\ tr["outer"].state = "idle"

\* C22: the status lines tell the truth: the outer page reads "Connected"
\* only when its latest initializeCopilot run has seen server.connect
\* resolve and has not ended in its catch, and the inner page reads
\* "Connected" (with or without OpenAI) only when its latest initialize()
\* has seen client.connect resolve.
C22_ConnectedIsTrue ==
  /\ dash.ui = showConnected =>
       /\ dash.runs # <<>>
       /\ dash.runs[Len(dash.runs)].pc = "done"
       /\ dash.runs[Len(dash.runs)].race # "rejected"
  /\ app.ui \in {showConnected, showConnectedWithOpenAI} => app.pc = "done"

\* C28: handling one user message goes to client.callTool at most once,
\* also when an OpenAI request fails after a tool was executed and the
\* rules take over.
C28_OneToolCallPerMessage ==
  \A i \in DOMAIN chat.msgs : chat.msgs[i].toolCalls <= 1

\* C23: CopilotApp calls close() on a transport before it lets go of it,
\* so at most one transport the page created has its listener attached.
C23_ListenersReleased ==
  /\ Cardinality({ k \in DOMAIN cop.insts : cop.insts[k].listeners > 0 }) <= 1
  /\ \A k \in DOMAIN cop.insts : k # cop.transport => cop.insts[k].teardowns > 0

\* A run of initialize() that has not ended.
InProgress(run) == run.pc \in {"delay", "connecting"}

\* C29: at most one run of initialize() is in progress, none while a
\* disconnect() awaits its close(), and none sets this.transport and
\* this.client after a disconnect() that was called later has cleared them.
C29_OneInitializeAtATime ==
  /\ Cardinality({ i \in DOMAIN cop.runs : InProgress(cop.runs[i]) }) <= 1
  /\ ~ /\ \E i \in DOMAIN cop.runs : InProgress(cop.runs[i])
       /\ \E j \in DOMAIN cop.discs : cop.discs[j].pc \in {"awaitClose", "awaitNoop"}
  /\ \A i \in DOMAIN cop.runs : ~cop.runs[i].late

\* C30: a tool that answers with its success text has written the value
\* to patientData, and a getContext that follows returns it; a tool that
\* answers with its error text has left patientData as it was.
C30_SuccessMeansStored ==
  \A i \in DOMAIN store.results :
    LET r == store.results[i]
    IN  /\ (r.tool = updateBloodPressure /\ r.text = UpdatedSuccessfully)
             => r.data.bloodPressure = r.args
        /\ (r.tool = updateBloodSugar /\ r.text = UpdatedSuccessfully)
             => r.data.bloodSugar = r.args[1]
        /\ r.text = ErrorUpdating => r.data = r.before
        /\ (r.tool = getContextTool /\ i > 1) =>
             LET u == store.results[i - 1]
             IN  /\ (u.tool = updateBloodPressure /\ u.text = UpdatedSuccessfully)
                      => r.data.bloodPressure = u.args
                 /\ (u.tool = updateBloodSugar /\ u.text = UpdatedSuccessfully)
                      => r.data.bloodSugar = u.args[1]

====
